---------------------------- MODULE Spec2Model ----------------------------
(***************************************************************************)
(* Job discovery and enrichment pipeline of the AI job application agent:  *)
(* the rate limiter (services/rateLimiter.ts), the TTL cache, the AI       *)
(* collaborator and the ATS optimizer (services/documentParser.ts holds    *)
(* cache.ts, aiService.ts, atsOptimizer.ts), and the scraper               *)
(* (services/jobScraper.ts).                                               *)
(*                                                                         *)
(* Time is Date.now() in milliseconds.  Strings that the code concatenates *)
(* or lower-cases are sequences of one-character strings.                  *)
(***************************************************************************)
EXTENDS Integers, Sequences, FiniteSets, TLC

VARIABLES
    clock,      \* Date.now(), ms
    ticks,      \* number of clock advances so far
    buckets,    \* RateLimiterService.limiters: <<operation, identifier>> -> record
    win,        \* history: per bucket, the current window of checkLimit calls
    lastCheck,  \* history: the latest checkLimit call and its outcome
    cacheStore, \* BrowserCache.cache: key -> [value, expiry]
    cacheStats, \* BrowserCache.stats
    lastSweep,  \* time of the latest periodic cleanup
    lastSet,    \* history: per key, the latest set not deleted since (value, time, ttl)
    aiEnabled,  \* AIService.openai is configured (an API key is set)
    calls,      \* number of scrapeJobs calls so far
    frames,     \* the scrapeJobs activations in progress, outermost first
    cfg,        \* axios request configs: the retry field of each request in flight
    ops,        \* number of CV operations so far
    lastOp,     \* history: the latest CV operation
    prevOp,     \* history: the one before it
    scored,     \* history: the latest application of a scoring function
    heap,       \* the objects that requests have created: address -> content
    held,       \* per request, the address of the object it passed or received
    uiJobs,     \* useJobs: the jobs state, the postings on display
    searchParams,   \* useJobs: the searchParams state (null or a validated input)
    queryData,  \* the query cache: the data of ['jobs', searchParams], per search
    fetching,   \* the searches whose queryFn is running
    processingJobs, \* App: the ids of the postings a handler is working on
    cvUploaded, \* App: cvData is not null
    awaiting,   \* App: the collaborator calls that handlers are awaiting
    served,     \* the scraper's cache entry of each search, while it is fresh
    scrapes,    \* number of scrapes that have returned a fresh list
    searchThrew \* history: what the latest searchJobs call threw (<< >> for nothing)

limVars == <<buckets, win, lastCheck>>
cacheVars == <<cacheStore, cacheStats, lastSweep, lastSet>>
scrapeVars == <<aiEnabled, calls, frames, cfg>>
cvVars == <<ops, lastOp, prevOp>>
appVars == <<uiJobs, searchParams, queryData, fetching, processingJobs, cvUploaded, awaiting,
            served, scrapes, searchThrew>>
shareVars == <<heap, held>>
restVars == <<scored, shareVars, appVars>>
vars == <<clock, ticks, limVars, cacheVars, scrapeVars, cvVars, restVars>>
exceptLimiter == <<cacheVars, scrapeVars, cvVars, restVars>>
exceptCache == <<limVars, scrapeVars, cvVars, restVars>>

NoScore == [ fn |-> "none" ]
AppIdle ==
    /\ uiJobs = << >>
    /\ searchParams = << >>
    /\ queryData = << >>
    /\ fetching = {}
    /\ processingJobs = {}
    /\ cvUploaded = FALSE
    /\ awaiting = {}
    /\ served = << >>
    /\ scrapes = 0
    /\ searchThrew = << >>
ShareIdle == heap = << >> /\ held = << >>
RestIdle == scored = NoScore /\ ShareIdle /\ AppIdle

(***************************************************************************)
(* Bounds of the model.                                                    *)
(***************************************************************************)
LimiterMaxTicks == 1
MaxOver == 1
CacheMaxTicks == 2
MaxGets == 2
MaxSpare == 2
MaxCalls == 2
CVMaxTicks == 1
MaxOps == 3
MaxKeywords == 4
MaxNumerals == 4
MaxJobKeywords == 2
MaxRequirements == 2
MaxScrapes == 2
MaxAwaiting == 1
MaxObjects == 2
MaxLength == 2

(***************************************************************************)
(* config/environment.ts                                                   *)
(***************************************************************************)
config ==
    [ scraping   |-> [ maxConcurrentRequests |-> 5, requestDelay |-> 2000,
                       timeout |-> 30000, retryAttempts |-> 3, retryDelay |-> 5000 ],
      rateLimits |-> [ jobSearch             |-> [ points |-> 10, duration |-> 60 ],
                       cvTailoring           |-> [ points |-> 5,  duration |-> 60 ],
                       coverLetterGeneration |-> [ points |-> 10, duration |-> 60 ] ],
      cache      |-> [ jobSearchTTL |-> 300, cvAnalysisTTL |-> 3600,
                       userProfileTTL |-> 86400 ],
      jobSites   |-> [ seek   |-> [ rateLimit |-> 1000 ],
                       indeed |-> [ rateLimit |-> 1500 ] ] ]

(***************************************************************************)
(* utils/errorHandler.ts                                                   *)
(***************************************************************************)
AppError(message, statusCode, code) ==
    [ name |-> "AppError", message |-> message, statusCode |-> statusCode, code |-> code ]

RateLimitError(message) ==
    [ AppError(message, 429, "RATE_LIMIT_ERROR") EXCEPT !.name = "RateLimitError" ]

\* The constructor takes the site and keeps none of it: only the message,
\* the status code and the code are fields of the error.
ScrapingError(message, site) ==
    [ AppError(message, 503, "SCRAPING_ERROR") EXCEPT !.name = "ScrapingError" ]

ValidationError(message) ==
    [ AppError(message, 400, "VALIDATION_ERROR") EXCEPT !.name = "ValidationError" ]

\* A plain Error (not an AppError).
PlainError(message) == [ name |-> "Error", message |-> message ]

(***************************************************************************)
(* The clock.                                                              *)
(***************************************************************************)
Advance(d, maxTicks) ==
    /\ ticks < maxTicks
    /\ clock' = clock + d
    /\ ticks' = ticks + 1

(***************************************************************************)
(* services/rateLimiter.ts                                                 *)
(***************************************************************************)
Operations == DOMAIN config.rateLimits
NoBucket == [ consumed |-> 0, expiresAt |-> -1 ]

BucketOf(bs, key) == IF key \in DOMAIN bs THEN bs[key] ELSE NoBucket

\* RateLimiterMemory: one record per identifier, alive until expiresAt.
BucketAlive(b, now) == b.expiresAt >= 0 /\ b.expiresAt - now > 0

\* limiter.consume(identifier): one point of the current window, a new
\* window of `duration` seconds when there is none; rejected when more
\* than `points` are consumed.
LimiterConsume(b, now, limit) ==
    LET rec == IF BucketAlive(b, now)
               THEN [ b EXCEPT !.consumed = @ + 1 ]
               ELSE [ consumed |-> 1, expiresAt |-> now + limit.duration * 1000 ]
    IN  [ bucket |-> rec,
          rejected |-> rec.consumed > limit.points,
          msBeforeNext |-> rec.expiresAt - now ]

\* a variant that drops the fraction
RoundSecondsDown(ms) == ms \div 1000

\* Math.round(x / 1000) for x >= 0
RoundSeconds(ms) == (ms + 500) \div 1000

\* Math.round(rejRes.msBeforeNext / 1000) || 1
RetrySecs(ms) == IF RoundSeconds(ms) = 0 THEN 1 ELSE RoundSeconds(ms)

\* (mutant) the rejection of consume is swallowed
checkLimitSwallows(bs, now, operation, identifier) ==
    IF operation \notin Operations
    THEN [ buckets |-> bs, ok |-> FALSE,
           error |-> PlainError(<<"Rate limiter not configured for operation: ", operation>>) ]
    ELSE LET key == <<operation, identifier>>
             res == LimiterConsume(BucketOf(bs, key), now, config.rateLimits[operation])
         IN  [ buckets |-> [ k \in DOMAIN bs \cup {key} |->
                               IF k = key THEN res.bucket ELSE bs[k] ],
               ok |-> TRUE, error |-> <<>> ]

\* a variant with one limiter for all operations
BucketKeyShared(operation, identifier) == <<"jobSearch", identifier>>

\* this.limiters.get(operation), then the record of `identifier` in it
BucketKey(operation, identifier) == <<operation, identifier>>

\* checkLimit(operation, identifier): the buckets afterwards and the outcome.
checkLimit(bs, now, operation, identifier) ==
    IF operation \notin Operations
    THEN [ buckets |-> bs, ok |-> FALSE,
           error |-> PlainError(<<"Rate limiter not configured for operation: ", operation>>) ]
    ELSE LET key == BucketKey(operation, identifier)
             b   == BucketOf(bs, key)
             res == LimiterConsume(b, now, config.rateLimits[operation])
             nbs == [ k \in DOMAIN bs \cup {key} |-> IF k = key THEN res.bucket ELSE bs[k] ]
         IN  IF res.rejected
             THEN [ buckets |-> nbs, ok |-> FALSE,
                    error |-> RateLimitError(<<"Rate limit exceeded. Try again in ",
                                               RetrySecs(res.msBeforeNext), " seconds.">>) ]
             ELSE [ buckets |-> nbs, ok |-> TRUE, error |-> <<>> ]

\* getRemainingPoints(operation, identifier): 0 for an operation without a
\* limiter, the points of the operation when the identifier has no live
\* record, else the points left (res.remainingPoints || 0)
getRemainingPoints(bs, now, operation, identifier) ==
    IF operation \notin Operations THEN 0
    ELSE LET b == BucketOf(bs, BucketKey(operation, identifier))
             points == config.rateLimits[operation].points
         IN  IF ~BucketAlive(b, now) THEN points
             ELSE IF b.consumed < points THEN points - b.consumed ELSE 0

(***************************************************************************)
(* Callers of the rate limiter.  A call of checkLimit consumes its point   *)
(* synchronously, before the caller is suspended, so the calls of          *)
(* concurrent callers take effect one at a time, in the order of the       *)
(* calls.                                                                  *)
(***************************************************************************)
LimiterCalls == { <<"jobSearch", "default">>, <<"cvTailoring", "default">>,
                  <<"cvTailoring", "user2">>, <<"cvAnalysis", "default">> }
LimiterSteps == {500, 59600, 60000}

\* history: the `duration`-second window that a call at `now` falls in
WindowAfter(w, now, limit) ==
    IF w.calls > 0 /\ now < w.start + limit.duration * 1000
    THEN [ w EXCEPT !.calls = @ + 1 ]
    ELSE [ start |-> now, calls |-> 1 ]

NoWindow == [ start |-> 0, calls |-> 0 ]
WindowOf(ws, key) == IF key \in DOMAIN ws THEN ws[key] ELSE NoWindow
NoCall == [ operation |-> "", identifier |-> "", nth |-> 0, ok |-> TRUE, error |-> <<>> ]

\* the effect of a checkLimit call on the limiter (and on the history)
CheckLimitEffect(operation, identifier) ==
    /\ LET r   == checkLimit(buckets, clock, operation, identifier)
           key == <<operation, identifier>>
           w   == IF operation \in Operations
                  THEN WindowAfter(WindowOf(win, key), clock, config.rateLimits[operation])
                  ELSE NoWindow
       IN  /\ buckets' = r.buckets
           /\ win' = IF operation \in Operations
                     THEN [ k \in DOMAIN win \cup {key} |-> IF k = key THEN w ELSE win[k] ]
                     ELSE win
           /\ lastCheck' = [ operation |-> operation, identifier |-> identifier,
                             nth |-> w.calls, ok |-> r.ok, error |-> r.error ]

CallCheckLimit(operation, identifier) ==
    /\ operation \in Operations =>
         BucketOf(buckets, <<operation, identifier>>).consumed
             < config.rateLimits[operation].points + MaxOver
    /\ CheckLimitEffect(operation, identifier)
    /\ UNCHANGED <<clock, ticks, exceptLimiter>>

LimiterTick ==
    /\ \E d \in LimiterSteps : Advance(d, LimiterMaxTicks)
    /\ UNCHANGED <<limVars, exceptLimiter>>

LimInit ==
    /\ buckets = << >>
    /\ win = << >>
    /\ lastCheck = NoCall

(***************************************************************************)
(* services/cache.ts: BrowserCache and CacheService                        *)
(***************************************************************************)
\* A value that may be undefined: << >> for undefined, <<v>> for the value v.
Undefined == << >>
Some(v) == <<v>>
stdTTL == 600
checkperiod == 120
defaultTTL == stdTTL * 1000

Present(store, key) == key \in DOMAIN store
Without(store, keys) == [ k \in DOMAIN store \ keys |-> store[k] ]

\* isExpired(item)
isExpired(item, now) == now > item.expiry

\* An optional number argument: << >> when omitted, <<n>> when given.
Omitted == << >>
Given(n) == <<n>>

\* (mutant) the ttl argument is ignored
ExpiryTimeIgnoresTTL(now, ttl) == now + defaultTTL

\* set(key, value, ttl): ttl ? ttl * 1000 : this.defaultTTL
ExpiryTime(now, ttl) ==
    now + (IF ttl # Omitted /\ ttl[1] # 0 THEN ttl[1] * 1000 ELSE defaultTTL)

cacheSet(store, stats, now, key, value, ttl) ==
    LET item == [ value |-> value, expiry |-> ExpiryTime(now, ttl) ]
    IN  [ store  |-> [ k \in DOMAIN store \cup {key} |-> IF k = key THEN item ELSE store[k] ],
          stats  |-> IF Present(store, key) THEN stats ELSE [ stats EXCEPT !.keys = @ + 1 ],
          result |-> TRUE ]

cacheGet(store, stats, now, key) ==
    IF ~Present(store, key)
    THEN [ store |-> store, stats |-> [ stats EXCEPT !.misses = @ + 1 ], result |-> Undefined ]
    ELSE IF isExpired(store[key], now)
    THEN [ store  |-> Without(store, {key}),
           stats  |-> [ stats EXCEPT !.keys = @ - 1, !.misses = @ + 1 ],
           result |-> Undefined ]
    ELSE [ store |-> store, stats |-> [ stats EXCEPT !.hits = @ + 1 ],
           result |-> Some(store[key].value) ]

cacheDel(store, stats, key) ==
    IF Present(store, key)
    THEN [ store |-> Without(store, {key}), stats |-> [ stats EXCEPT !.keys = @ - 1 ],
           result |-> 1 ]
    ELSE [ store |-> store, stats |-> stats, result |-> 0 ]

cacheHas(store, stats, now, key) ==
    IF ~Present(store, key)
    THEN [ store |-> store, stats |-> stats, result |-> FALSE ]
    ELSE IF isExpired(store[key], now)
    THEN [ store |-> Without(store, {key}), stats |-> [ stats EXCEPT !.keys = @ - 1 ],
           result |-> FALSE ]
    ELSE [ store |-> store, stats |-> stats, result |-> TRUE ]

\* a variant that also resets the counters
flushAllResetsStats(store, stats) ==
    [ store |-> << >>, stats |-> [ stats EXCEPT !.keys = 0, !.hits = 0, !.misses = 0 ],
      result |-> Undefined ]

flushAll(store, stats) ==
    [ store |-> << >>, stats |-> [ stats EXCEPT !.keys = 0 ], result |-> Undefined ]

getStats(store, stats) ==
    LET st == [ stats EXCEPT !.keys = Cardinality(DOMAIN store) ]
    IN  [ store |-> store, stats |-> st, result |-> st ]

\* cleanup(): the periodic sweep deletes every expired entry
cleanup(store, stats, now) ==
    LET dead == { k \in DOMAIN store : now > store[k].expiry }
    IN  [ store |-> Without(store, dead),
          stats |-> [ stats EXCEPT !.keys = @ - Cardinality(dead) ],
          result |-> Undefined ]

\* CacheService: key construction of the specialised wrappers
JobSearchKey(query, location) == <<"job_search:">> \o query \o <<":">> \o location
CVAnalysisKey(cvHash) == <<"cv_analysis:">> \o cvHash

(***************************************************************************)
(* The cache driven through its public interface.                          *)
(***************************************************************************)
CacheKeys == {"k1", "k2"}
CacheValues == {"v1", "v2"}
CacheTTLs == {Omitted, Given(config.cache.jobSearchTTL)}
CacheSteps == {config.cache.jobSearchTTL * 1000, config.cache.jobSearchTTL * 1000 + 1}

Apply(r) ==
    /\ cacheStore' = r.store
    /\ cacheStats' = r.stats

\* history: the effective ttl of a set, in seconds
EffectiveTTL(ttl) == IF ttl = Omitted THEN stdTTL ELSE ttl[1]

\* set, with the history
CacheSetEffect(key, value, ttl) ==
    /\ Apply(cacheSet(cacheStore, cacheStats, clock, key, value, ttl))
    /\ lastSet' = [ k \in DOMAIN lastSet \cup {key} |->
                      IF k = key
                      THEN [ value |-> value, at |-> clock, ttl |-> EffectiveTTL(ttl) ]
                      ELSE lastSet[k] ]

CacheSet(key, value, ttl) ==
    /\ CacheSetEffect(key, value, ttl)
    /\ UNCHANGED <<clock, ticks, lastSweep, exceptCache>>

CacheGet(key) ==
    /\ cacheStats.hits + cacheStats.misses < MaxGets
    /\ Apply(cacheGet(cacheStore, cacheStats, clock, key))
    /\ UNCHANGED <<clock, ticks, lastSweep, lastSet, exceptCache>>

CacheHas(key) ==
    /\ Apply(cacheHas(cacheStore, cacheStats, clock, key))
    /\ UNCHANGED <<clock, ticks, lastSweep, lastSet, exceptCache>>

CacheDel(key) ==
    /\ Apply(cacheDel(cacheStore, cacheStats, key))
    /\ lastSet' = Without(lastSet, {key})
    /\ UNCHANGED <<clock, ticks, lastSweep, exceptCache>>

CacheFlush ==
    /\ Apply(flushAll(cacheStore, cacheStats))
    /\ lastSet' = << >>
    /\ UNCHANGED <<clock, ticks, lastSweep, exceptCache>>

CacheGetStats ==
    /\ Apply(getStats(cacheStore, cacheStats))
    /\ UNCHANGED <<clock, ticks, lastSweep, lastSet, exceptCache>>

\* the setInterval callback, every checkperiod seconds
CacheSweep ==
    /\ clock >= lastSweep + checkperiod * 1000
    /\ Apply(cleanup(cacheStore, cacheStats, clock))
    /\ lastSweep' = clock
    /\ UNCHANGED <<clock, ticks, lastSet, exceptCache>>

CacheTick ==
    /\ \E d \in CacheSteps : Advance(d, CacheMaxTicks)
    /\ UNCHANGED <<limVars, exceptLimiter>>

CacheInit ==
    /\ cacheStore = << >>
    /\ cacheStats = [ keys |-> 0, hits |-> 0, misses |-> 0, ksize |-> 0, vsize |-> 0 ]
    /\ lastSweep = 0
    /\ lastSet = << >>

(***************************************************************************)
(* Strings as sequences of characters.                                     *)
(***************************************************************************)
UpperCase ==
    <<"A", "B", "C", "D", "E", "F", "G", "H", "I", "J", "K", "L", "M", "N", "O", "P", "Q", "R", "S", "T", "U", "V", "W", "X", "Y", "Z">>
LowerCase ==
    <<"a", "b", "c", "d", "e", "f", "g", "h", "i", "j", "k", "l", "m", "n", "o", "p", "q", "r", "s", "t", "u", "v", "w", "x", "y", "z">>

LowerOf ==
    [ c \in { UpperCase[i] : i \in 1..Len(UpperCase) } |->
        LowerCase[CHOOSE i \in 1..Len(UpperCase) : UpperCase[i] = c] ]

toLowerChar(c) == IF c \in DOMAIN LowerOf THEN LowerOf[c] ELSE c

\* String.prototype.toLowerCase
toLowerCase(str) == << >> \o [ i \in 1..Len(str) |-> toLowerChar(str[i]) ]

\* Array.prototype.join(sep) on an array of strings
RECURSIVE join(_, _)
join(arr, sep) ==
    IF Len(arr) = 0 THEN << >>
    ELSE IF Len(arr) = 1 THEN arr[1]
    ELSE arr[1] \o sep \o join(Tail(arr), sep)

\* Array.prototype.slice(0, n)
slice(arr, n) == SubSeq(arr, 1, IF Len(arr) < n THEN Len(arr) ELSE n)

(***************************************************************************)
(* services/aiService.ts                                                   *)
(***************************************************************************)
\* ensureOpenAI(): throws when no API key is configured
ensureOpenAI(enabled) ==
    IF enabled THEN [ ok |-> TRUE, error |-> <<>> ]
    ELSE [ ok |-> FALSE, error |-> AppError("OpenAI API key not configured. Please set VITE_OPENAI_API_KEY environment variable.",
                         500, "INTERNAL_ERROR") ]

\* extractJobKeywords(description, title): the parsed reply of the model, or
\* an AppError ("Keyword extraction error") when the client is missing, the
\* request fails or the reply is no JSON.  `reply` is the collaborator's
\* part: << >> for a failure, <<keywords>> for a parsed reply.
extractJobKeywords(enabled, reply) ==
    IF ~ensureOpenAI(enabled).ok THEN [ ok |-> FALSE, error |-> ensureOpenAI(enabled).error ]
    ELSE IF reply = << >>
    THEN [ ok |-> FALSE, error |-> AppError("Keyword extraction error", 500, "INTERNAL_ERROR") ]
    ELSE [ ok |-> TRUE, keywords |-> reply[1] ]

\* [...new Set(arr)]: first occurrences, in order
RECURSIVE Distinct(_)
Distinct(arr) ==
    IF arr = << >> THEN << >>
    ELSE LET init == Distinct(SubSeq(arr, 1, Len(arr) - 1))
             last == arr[Len(arr)]
         IN  IF \E i \in 1..Len(init) : init[i] = last THEN init ELSE Append(init, last)

(***************************************************************************)
(* services/atsOptimizer.ts: the deterministic keyword extractor           *)
(***************************************************************************)
\* String.prototype.includes
includes(content, word) ==
    \/ word = << >>
    \/ \E i \in 1..(Len(content) - Len(word) + 1) :
         /\ content[i] = word[1]
         /\ \A j \in 2..Len(word) : content[i + j - 1] = word[j]

\* techKeywords, in the order of the list
techKeywords ==
    <<
       \* Frontend Technologies
       <<"r", "e", "a", "c", "t">>,
       <<"a", "n", "g", "u", "l", "a", "r">>,
       <<"v", "u", "e">>,
       <<"j", "a", "v", "a", "s", "c", "r", "i", "p", "t">>,
       <<"t", "y", "p", "e", "s", "c", "r", "i", "p", "t">>,
       <<"h", "t", "m", "l">>,
       <<"c", "s", "s">>,
       <<"s", "a", "s", "s">>,
       <<"l", "e", "s", "s">>,
       <<"j", "q", "u", "e", "r", "y">>,
       <<"b", "o", "o", "t", "s", "t", "r", "a", "p">>,
       <<"t", "a", "i", "l", "w", "i", "n", "d">>,
       <<"w", "e", "b", "p", "a", "c", "k">>,
       <<"v", "i", "t", "e">>,
       <<"n", "e", "x", "t", ".", "j", "s">>,
       <<"n", "u", "x", "t", ".", "j", "s">>,
       \* Backend Technologies
       <<"n", "o", "d", "e", ".", "j", "s">>,
       <<"e", "x", "p", "r", "e", "s", "s">>,
       <<"p", "y", "t", "h", "o", "n">>,
       <<"d", "j", "a", "n", "g", "o">>,
       <<"f", "l", "a", "s", "k">>,
       <<"j", "a", "v", "a">>,
       <<"s", "p", "r", "i", "n", "g">>,
       <<"c", "#">>,
       <<".", "n", "e", "t">>,
       <<"p", "h", "p">>,
       <<"l", "a", "r", "a", "v", "e", "l">>,
       <<"r", "u", "b", "y">>,
       <<"r", "a", "i", "l", "s">>,
       <<"g", "o">>,
       <<"r", "u", "s", "t">>,
       <<"s", "c", "a", "l", "a">>,
       \* Databases
       <<"s", "q", "l">>,
       <<"m", "y", "s", "q", "l">>,
       <<"p", "o", "s", "t", "g", "r", "e", "s", "q", "l">>,
       <<"m", "o", "n", "g", "o", "d", "b">>,
       <<"r", "e", "d", "i", "s">>,
       <<"e", "l", "a", "s", "t", "i", "c", "s", "e", "a", "r", "c", "h">>,
       <<"o", "r", "a", "c", "l", "e">>,
       <<"s", "q", "l", "i", "t", "e">>,
       <<"c", "a", "s", "s", "a", "n", "d", "r", "a">>,
       <<"d", "y", "n", "a", "m", "o", "d", "b">>,
       \* Cloud & DevOps
       <<"a", "w", "s">>,
       <<"a", "z", "u", "r", "e">>,
       <<"g", "c", "p">>,
       <<"d", "o", "c", "k", "e", "r">>,
       <<"k", "u", "b", "e", "r", "n", "e", "t", "e", "s">>,
       <<"j", "e", "n", "k", "i", "n", "s">>,
       <<"g", "i", "t", "l", "a", "b">>,
       <<"g", "i", "t", "h", "u", "b">>,
       <<"t", "e", "r", "r", "a", "f", "o", "r", "m">>,
       <<"a", "n", "s", "i", "b", "l", "e">>,
       <<"c", "i", "/", "c", "d">>,
       <<"d", "e", "v", "o", "p", "s">>,
       <<"m", "i", "c", "r", "o", "s", "e", "r", "v", "i", "c", "e", "s">>,
       \* Tools & Methodologies
       <<"g", "i", "t">>,
       <<"j", "i", "r", "a">>,
       <<"c", "o", "n", "f", "l", "u", "e", "n", "c", "e">>,
       <<"a", "g", "i", "l", "e">>,
       <<"s", "c", "r", "u", "m">>,
       <<"k", "a", "n", "b", "a", "n">>,
       <<"r", "e", "s", "t">>,
       <<"g", "r", "a", "p", "h", "q", "l">>,
       <<"a", "p", "i">>,
       <<"t", "e", "s", "t", "i", "n", "g">>,
       <<"j", "e", "s", "t">>,
       <<"c", "y", "p", "r", "e", "s", "s">>,
       <<"s", "e", "l", "e", "n", "i", "u", "m">>,
       \* Soft Skills
       <<"l", "e", "a", "d", "e", "r", "s", "h", "i", "p">>,
       <<"c", "o", "m", "m", "u", "n", "i", "c", "a", "t", "i", "o", "n">>,
       <<"p", "r", "o", "b", "l", "e", "m", "-", "s", "o", "l", "v", "i", "n", "g">>,
       <<"t", "e", "a", "m", "w", "o", "r", "k">>,
       <<"p", "r", "o", "j", "e", "c", "t", " ", "m", "a", "n", "a", "g", "e", "m", "e", "n", "t">>,
       <<"a", "n", "a", "l", "y", "t", "i", "c", "a", "l">>,
       <<"c", "r", "e", "a", "t", "i", "v", "e">>,
       <<"a", "d", "a", "p", "t", "a", "b", "l", "e">>,
       <<"d", "e", "t", "a", "i", "l", "-", "o", "r", "i", "e", "n", "t", "e", "d">>
    >>

\* keyword.toLowerCase() of each entry
lowerKeywords ==
    [ keyword \in { techKeywords[i] : i \in 1..Len(techKeywords) } |-> toLowerCase(keyword) ]

\* extractKeywords(content): the vocabulary entries that the lower-cased
\* content includes, in the order of the vocabulary
extractKeywords(content) ==
    LET lowerContent == toLowerCase(content)
        Found(keyword) == includes(lowerContent, lowerKeywords[keyword])
    IN  Distinct(SelectSeq(techKeywords, Found))

(***************************************************************************)
(* services/jobScraper.ts                                                  *)
(***************************************************************************)
Sources == <<"seek", "indeed">>
ListingCap == 10

\* cacheKey = keywords.join(',') + ':' + location
ScrapeCacheKey(keywords, location) == join(keywords, <<",">>) \o <<":">> \o location

\* a variant without the element's index
JobIdOfTime(source, now, index) == <<source, now, 0>>

\* id: `${source}_${Date.now()}_${index}`
JobId(source, now, index) == <<source, now, index>>

\* the listing elements of a page that have a title and a company become
\* jobs; the id holds the source, Date.now() and the element's index
RECURSIVE ParseFrom(_, _, _, _)
ParseFrom(page, i, source, now) ==
    IF i > Len(page) THEN << >>
    ELSE LET el == page[i]
             rest == ParseFrom(page, i + 1, source, now)
         IN  IF el.title # << >> /\ el.company # << >>
             THEN << [ id |-> JobId(source, now, i - 1),
                       title |-> el.title, company |-> el.company,
                       description |-> << >>, requirements |-> << >>, keywords |-> << >>,
                       source |-> source, applicationStatus |-> "not_applied",
                       matchScore |-> 0 ] >> \o rest
             ELSE rest

ParsePage(page, source, now) == ParseFrom(page, 1, source, now)

\* extractRequirements(description): the words of the description that one
\* of the skill patterns matches (case-insensitively, kept as written),
\* without repetitions, at most 10
SkillWords == { <<"a", "w", "s">>, <<"s", "q", "l">> }
IsSkillWord(w) == toLowerCase(w) \in SkillWords
extractRequirements(description) ==
    slice(Distinct(SelectSeq(description, IsSkillWord)), 10)

\* (mutant) the key is not lower-cased
DedupKeyCaseSensitive(job) == job.title \o <<"_">> \o job.company

\* removeDuplicates key: `${title.toLowerCase()}_${company.toLowerCase()}`
DedupKey(job) == toLowerCase(job.title) \o <<"_">> \o toLowerCase(job.company)

\* removeDuplicates(jobs)
RECURSIVE removeDuplicatesFrom(_, _)
removeDuplicatesFrom(jobs, seen) ==
    IF jobs = << >> THEN << >>
    ELSE IF DedupKey(Head(jobs)) \in seen
    THEN removeDuplicatesFrom(Tail(jobs), seen)
    ELSE <<Head(jobs)>> \o removeDuplicatesFrom(Tail(jobs), seen \cup {DedupKey(Head(jobs))})

removeDuplicates(jobs) == removeDuplicatesFrom(jobs, {})

\* the response interceptor: retry while config.retry < retryAttempts
ShouldRetry(retry) == retry < config.scraping.retryAttempts

\* (mutant) one retry counter for all requests
ConfigOfShared(d, source) == <<0, "all">>

\* the retry counter is a field of the failed request's own config
ConfigOf(d, source) == <<d, source>>

ClockInit == clock = 0 /\ ticks = 0

\* source names as they appear in the error messages
SiteName(source) == IF source = "seek" THEN "Seek" ELSE "Indeed"

(***************************************************************************)
(* What the job sites and the collaborator may answer, and what the caller *)
(* may ask.                                                                *)
(***************************************************************************)
Listing(title, company) == [ title |-> title, company |-> company ]
Pages ==
    { << >>,
      << Listing(<< >>, <<"c">>), Listing(<<"A", "W", "S">>, <<"c">>),
         Listing(<<"a", "w", "s">>, <<"c">>), Listing(<<"a", "_", "b">>, <<"c">>),
         Listing(<<"a">>, <<"b", "_", "c">>) >> }
AIReplies == { << >>, << <<"aws">> >> }
\* Math.floor(Math.random() * 40) + 60
MatchScores == {60, 99}
\* getJobDetails(jobId) searches for these keywords, in the default location
DetailSearch == [ keywords |-> << <<"software">>, <<"developer">>, <<"engineer">> >>,
                  location |-> <<"Australia">> ]
Searches == { [ keywords |-> << <<"a">>, <<"b">> >>, location |-> <<"X">> ], DetailSearch }

NoTask == [ pc |-> "none", attempts |-> 0, waited |-> 0, jobs |-> << >>,
            value |-> << >>, iterable |-> TRUE, reason |-> << >> ]
NoOutcome == [ kind |-> "none", value |-> << >>, error |-> << >> ]
Returned(v) == [ kind |-> "value", value |-> v, error |-> << >> ]
Thrown(e) == [ kind |-> "error", value |-> << >>, error |-> e ]
Terminal(t) == t.pc \in {"fulfilled", "rejected"}

\* history: an operation on a CV and what came of it
NoOp == [ op |-> "none", text |-> << >>, limited |-> FALSE, hit |-> FALSE, aiRun |-> FALSE,
          basicRun |-> FALSE, outcome |-> NoOutcome, at |-> 0 ]
CVIdle == ops = 0 /\ lastOp = NoOp /\ prevOp = NoOp

\* a variant that leaves the location out of the key
SearchKeyOfKeywords(s) == JobSearchKey(join(s.keywords, <<",">>), << >>)

\* the cache key of a search
SearchKey(s) == JobSearchKey(ScrapeCacheKey(s.keywords, s.location), s.location)

\* scrapeJobs(keywords, location) up to its first await: the activation
\* after rateLimiter.checkLimit('jobSearch') with outcome r
NewFrame(s, r) ==
    [ pc |-> IF r.ok THEN "checked" ELSE "done",
      search |-> s,
      tasks |-> [ t \in {"seek", "indeed"} |-> NoTask ],
      pending |-> << >>,
      enhanced |-> << >>,
      trace |-> <<"checkLimit">>,
      outcome |-> IF r.ok THEN NoOutcome ELSE Thrown(r.error) ]

\* the caller (useJobs) calls scrapeJobs
StartScrape(s) ==
    /\ frames = << >>
    /\ calls < MaxCalls
    /\ calls' = calls + 1
    /\ CheckLimitEffect("jobSearch", "default")
    /\ frames' = << NewFrame(s, checkLimit(buckets, clock, "jobSearch", "default")) >>
    /\ UNCHANGED <<cvVars, restVars, clock, ticks, cacheVars, aiEnabled, cfg>>

\* scrapeJobs resumed: the cache lookup; a hit is returned, a miss starts
\* scrapeSeek and scrapeIndeed (each up to its first await)
ProbeCache(d) ==
    /\ frames[d].pc = "checked"
    /\ LET f == frames[d]
           g == cacheGet(cacheStore, cacheStats, clock, SearchKey(f.search))
       IN  /\ cacheStore' = g.store
           /\ cacheStats' = g.stats
           /\ frames' = [ frames EXCEPT ![d] =
                IF g.result # Undefined
                THEN [ f EXCEPT !.pc = "done", !.outcome = Returned(g.result[1]),
                                !.trace = Append(@, "cacheGet") ]
                ELSE [ f EXCEPT !.pc = "fetching",
                                !.trace = @ \o <<"cacheGet", "scrapeSeek", "scrapeIndeed">>,
                                !.tasks = [ t \in DOMAIN @ |-> [ NoTask EXCEPT !.pc = "delay" ] ] ] ]
    /\ UNCHANGED <<cvVars, restVars, clock, ticks, limVars, lastSweep, lastSet, aiEnabled, calls, cfg>>

\* the site's rateLimit pause is over: the search request is sent, with a
\* config of its own
TaskTimer(d, t) ==
    /\ frames[d].pc = "fetching"
    /\ frames[d].tasks[t].pc = "delay"
    /\ frames' = [ frames EXCEPT ![d].tasks[t].pc = "get", ![d].tasks[t].attempts = 1 ]
    /\ cfg' = Without(cfg, {ConfigOf(d, t)})
    /\ UNCHANGED <<cvVars, restVars, clock, ticks, limVars, cacheVars, aiEnabled, calls>>

\* the request of task t fails (times out): the response interceptor sends
\* it again after retryDelay, or rejects, and scrapeSeek / scrapeIndeed
\* throw their ScrapingError
HttpError(d, t) ==
    /\ frames[d].pc = "fetching"
    /\ frames[d].tasks[t].pc = "get"
    /\ LET key   == ConfigOf(d, t)
           retry == IF key \in DOMAIN cfg THEN cfg[key] ELSE 0
       IN  IF ShouldRetry(retry)
           THEN /\ cfg' = [ k \in DOMAIN cfg \cup {key} |-> IF k = key THEN retry + 1 ELSE cfg[k] ]
                /\ frames' = [ frames EXCEPT ![d].tasks[t].pc = "retryWait" ]
           ELSE /\ cfg' = Without(cfg, {key})
                /\ frames' = [ frames EXCEPT ![d].tasks[t].pc = "rejected",
                     ![d].tasks[t].reason = ScrapingError(<<"Failed to scrape ", SiteName(t)>>, t) ]
    /\ UNCHANGED <<cvVars, restVars, clock, ticks, limVars, cacheVars, aiEnabled, calls>>

\* retryDelay is over: the interceptor sends the request again, with the
\* same config
RetryTimer(d, t) ==
    /\ frames[d].pc = "fetching"
    /\ frames[d].tasks[t].pc = "retryWait"
    /\ frames' = [ frames EXCEPT ![d].tasks[t].pc = "get", ![d].tasks[t].attempts = @ + 1,
                                 ![d].tasks[t].waited = @ + config.scraping.retryDelay ]
    /\ UNCHANGED <<cvVars, restVars, clock, ticks, limVars, cacheVars, aiEnabled, calls, cfg>>

\* scrapeIndeed: the search page arrives, is parsed, and its first 10 jobs
\* are returned
IndeedResponse(d, page) ==
    /\ frames[d].pc = "fetching"
    /\ frames[d].tasks["indeed"].pc = "get"
    /\ LET jobs == slice(ParsePage(page, "indeed", clock), ListingCap)
       IN  frames' = [ frames EXCEPT ![d].tasks["indeed"] =
                         [ @ EXCEPT !.pc = "fulfilled", !.jobs = jobs, !.value = jobs,
                                    !.attempts = 0, !.waited = 0 ] ]
    /\ cfg' = Without(cfg, {ConfigOf(d, "indeed")})
    /\ UNCHANGED <<cvVars, restVars, clock, ticks, limVars, cacheVars, aiEnabled, calls>>

\* the argument of this.getJobDetails(jobs.slice(0, 10)): an array
ArrayArg(jobs) == [ type |-> "array", value |-> jobs ]
\* job.id === jobId, for a job id (a string)
IdEquals(id, jobId) == jobId.type = "string" /\ id = jobId.value

\* scrapeSeek: the search page arrives and is parsed; this.getJobDetails is
\* called with the first 10 jobs.  The class defines getJobDetails twice
\* and the later definition, getJobDetails(jobId), is the method of the
\* class: it calls scrapeJobs for DetailSearch
SeekResponse(d, page) ==
    /\ frames[d].pc = "fetching"
    /\ frames[d].tasks["seek"].pc = "get"
    /\ LET jobs == slice(ParsePage(page, "seek", clock), ListingCap)
       IN  frames' = Append(
               [ frames EXCEPT ![d].tasks["seek"] =
                   [ @ EXCEPT !.pc = "nested", !.jobs = jobs, !.attempts = 0, !.waited = 0 ],
                 ![d].trace = Append(@, "scrapeJobs") ],
               NewFrame(DetailSearch, checkLimit(buckets, clock, "jobSearch", "default")))
    /\ CheckLimitEffect("jobSearch", "default")
    /\ cfg' = Without(cfg, {ConfigOf(d, "seek")})
    /\ UNCHANGED <<cvVars, restVars, clock, ticks, cacheVars, aiEnabled, calls>>

\* getJobDetails(jobId), after its scrapeJobs call: jobs.find(...) || null,
\* or null when the call threw.  The result is a sequence of at most one job
getJobDetails(outcome, jobId) ==
    IF outcome.kind = "value"
    THEN LET Match(job) == IdEquals(job.id, jobId)
         IN  slice(SelectSeq(outcome.value, Match), 1)
    ELSE << >>

\* the scrapeJobs call of getJobDetails is over: scrapeSeek returns what
\* getJobDetails returns, a job or null and no array
NestedReturn(d) ==
    /\ d + 1 = Len(frames)
    /\ frames[d + 1].pc = "done"
    /\ frames[d].tasks["seek"].pc = "nested"
    /\ frames' = [ SubSeq(frames, 1, d) EXCEPT ![d].tasks["seek"] =
                     [ @ EXCEPT !.pc = "fulfilled", !.iterable = FALSE,
                                !.value = getJobDetails(frames[d + 1].outcome, ArrayArg(frames[d].tasks["seek"].jobs)) ] ]
    /\ UNCHANGED <<cvVars, restVars, clock, ticks, limVars, cacheVars, aiEnabled, calls, cfg>>

\* the jobs of the fulfilled tasks, in the order of scrapingPromises
RECURSIVE Collect(_, _)
Collect(ts, i) ==
    IF i > Len(Sources) THEN << >>
    ELSE (IF ts[Sources[i]].pc = "fulfilled" THEN ts[Sources[i]].value ELSE << >>)
         \o Collect(ts, i + 1)

\* allJobs.push(...result.value) throws for a value that is no array
Spreadable(ts) == \A t \in DOMAIN ts : ts[t].pc = "fulfilled" => ts[t].iterable

\* a variant that settles at the first rejection, like Promise.all
SettledFailFast(ts) ==
    \/ \E t \in DOMAIN ts : ts[t].pc = "rejected"
    \/ \A t \in DOMAIN ts : ts[t].pc = "fulfilled"

\* await Promise.allSettled(scrapingPromises): every promise is fulfilled
\* or rejected
Settled(ts) == \A t \in DOMAIN ts : Terminal(ts[t])

\* Promise.allSettled has settled: the fulfilled results are collected and
\* deduplicated; an error while collecting becomes the ScrapingError of the
\* catch block
Join(d) ==
    /\ frames[d].pc = "fetching"
    /\ Settled(frames[d].tasks)
    /\ frames' = [ frames EXCEPT ![d] =
         IF Spreadable(@.tasks)
         THEN [ @ EXCEPT !.pc = "enhancing", !.trace = Append(@, "allSettled"),
                         !.pending = removeDuplicates(Collect(frames[d].tasks, 1)) ]
         ELSE [ @ EXCEPT !.pc = "done", !.trace = Append(@, "allSettled"),
                         !.outcome = Thrown(ScrapingError(
                                        <<"Failed to scrape jobs from all sources">>, "")) ] ]
    /\ UNCHANGED <<cvVars, restVars, clock, ticks, limVars, cacheVars, aiEnabled, calls, cfg>>

\* enhanceJobsWithAI, one job: keywords of the collaborator and a random
\* match score, or the job as it is when the collaborator fails
EnhanceStep(d, reply, score) ==
    /\ frames[d].pc = "enhancing"
    /\ Len(frames[d].enhanced) < Len(frames[d].pending)
    /\ LET job == frames[d].pending[Len(frames[d].enhanced) + 1]
           r   == extractJobKeywords(aiEnabled, reply)
       IN  frames' = [ frames EXCEPT ![d].enhanced = Append(@,
                         IF r.ok
                         THEN [ job EXCEPT !.keywords = r.keywords, !.matchScore = score ]
                         ELSE job) ]
    /\ UNCHANGED <<cvVars, restVars, clock, ticks, limVars, cacheVars, aiEnabled, calls, cfg>>

\* the enhanced jobs are cached for jobSearchTTL seconds and returned
FinishScrape(d) ==
    /\ frames[d].pc = "enhancing"
    /\ Len(frames[d].enhanced) = Len(frames[d].pending)
    /\ CacheSetEffect(SearchKey(frames[d].search), frames[d].enhanced,
                      Given(config.cache.jobSearchTTL))
    /\ frames' = [ frames EXCEPT ![d].pc = "done", ![d].outcome = Returned(frames[d].enhanced),
                                 ![d].trace = Append(@, "cacheSet") ]
    /\ UNCHANGED <<cvVars, restVars, clock, ticks, limVars, lastSweep, aiEnabled, calls, cfg>>

\* the caller has the outcome
ReturnScrape ==
    /\ Len(frames) = 1
    /\ frames[1].pc = "done"
    /\ frames' = << >>
    /\ UNCHANGED <<cvVars, restVars, clock, ticks, limVars, cacheVars, aiEnabled, calls, cfg>>

\* time passes between two calls of the caller, within the window of the
\* limiter (and so within jobSearchTTL)
ScrapeSteps == {30000}
ScrapeTick ==
    /\ frames = << >>
    /\ calls > 0
    /\ \E d \in ScrapeSteps :
         /\ clock + d < config.rateLimits.jobSearch.duration * 1000
         /\ clock' = clock + d
         /\ ticks' = ticks + 1
    /\ UNCHANGED <<limVars, exceptLimiter>>

ScrapeIdle ==
    /\ calls = 0
    /\ frames = << >>
    /\ cfg = << >>

\* the points of the jobSearch window that earlier searches have used.  The
\* nesting of scrapeJobs activations ends only when the window is used up,
\* so the window starts with at most MaxSpare points left and the clock
\* stands still during a search
PriorSearches ==
    (config.rateLimits.jobSearch.points - MaxSpare) .. (config.rateLimits.jobSearch.points - 1)

Init ==
    /\ ClockInit
    /\ CacheInit
    /\ ScrapeIdle
    /\ CVIdle
    /\ RestIdle
    /\ aiEnabled \in BOOLEAN
    /\ lastCheck = NoCall
    /\ \E n \in PriorSearches :
         /\ buckets = (<<"jobSearch", "default">> :>
                         [ consumed |-> n,
                           expiresAt |-> config.rateLimits.jobSearch.duration * 1000 ])
         /\ win = (<<"jobSearch", "default">> :> [ start |-> 0, calls |-> n ])

Depths == 1..Len(frames)

Next ==
    \/ \E s \in Searches : StartScrape(s)
    \/ \E d \in Depths : ProbeCache(d)
    \/ \E d \in Depths : \E t \in {"seek", "indeed"} : TaskTimer(d, t)
    \/ \E d \in Depths : \E t \in {"seek", "indeed"} : HttpError(d, t)
    \/ \E d \in Depths : \E t \in {"seek", "indeed"} : RetryTimer(d, t)
    \/ \E d \in Depths : \E page \in Pages : IndeedResponse(d, page)
    \/ \E d \in Depths : \E page \in Pages : SeekResponse(d, page)
    \/ \E d \in Depths : NestedReturn(d)
    \/ \E d \in Depths : Join(d)
    \/ \E d \in Depths : \E reply \in AIReplies : \E score \in MatchScores :
         EnhanceStep(d, reply, score)
    \/ \E d \in Depths : FinishScrape(d)
    \/ ReturnScrape
    \/ ScrapeTick

Spec == Init /\ [][Next]_vars

(***************************************************************************)
(* services/atsOptimizer.ts and services/aiService.ts: CV analysis,        *)
(* tailoring and cover letters.  A text is a sequence of symbols: single   *)
(* characters, and whole words that are never looked into ("(bullet)" is   *)
(* U+2022).                                                                *)
(***************************************************************************)
Digits == {"0", "1", "2", "3", "4", "5", "6", "7", "8", "9"}
IsUpper(c) == c \in DOMAIN LowerOf
LowerLetters == { LowerCase[i] : i \in 1..Len(LowerCase) }
IsLower(c) == c \in LowerLetters
Min(a, b) == IF a < b THEN a ELSE b
Count(content, Test(_)) == Cardinality({ i \in 1..Len(content) : Test(content[i]) })

\* content.split(' ').length
wordCount(content) == LET IsSpace(c) == c = " " IN Count(content, IsSpace) + 1

\* a variant that counts digits, not runs of digits
digitRunsCountsDigits(content) ==
    Cardinality({ i \in 1..Len(content) : content[i] \in Digits })

\* content.match(/\d+/g): the number of maximal runs of digits (0 for null)
digitRuns(content) ==
    Cardinality({ i \in 1..Len(content) :
                    content[i] \in Digits /\ (i = 1 \/ content[i - 1] \notin Digits) })

\* content.match(/[A-Z][a-z]+ \d{4}/g) is not null
hasDate(content) ==
    \E i \in 1..Len(content) :
      IsUpper(content[i]) /\ \E k \in 1..(Len(content) - i - 5) :
        /\ \A j \in (i + 1)..(i + k) : IsLower(content[j])
        /\ content[i + k + 1] = " "
        /\ \A j \in (i + k + 2)..(i + k + 5) : content[j] \in Digits

\* static createHash(content): the SHA-256 digest in hex, a function of
\* the content taken to be free of collisions
createHash(content) == <<"sha256(">> \o content \o <<")">>

\* a variant without the two outer length bands
lengthScoreOneBand(words) == IF words >= 400 /\ words <= 1000 THEN 30 ELSE 0

\* content length optimization: the points of a word count, in half points
lengthScore(words) ==
    IF words >= 400 /\ words <= 1000 THEN 30
    ELSE IF words >= 200 /\ words <= 1500 THEN 20
    ELSE IF words >= 100 THEN 10 ELSE 0

\* calculateATSScore(content, keywords), in half points (a keyword counts
\* 1.5 points)
calculateATSScore(content, keywords) ==
    LET lowerContent == toLowerCase(content)
        Has(word) == includes(lowerContent, <<word>>)
        sections ==
            (IF Has("experience") \/ Has("employment") THEN 30 ELSE 0)
            + (IF Has("education") \/ Has("qualification") THEN 20 ELSE 0)
            + (IF Has("skills") \/ Has("competencies") THEN 20 ELSE 0)
            + (IF Has("summary") \/ Has("profile") THEN 10 ELSE 0)
        keywordScore == Min(Len(keywords) * 3, 50)
        length == lengthScore(wordCount(content))
        format ==
            (IF includes(content, <<"(bullet)">>) \/ includes(content, <<"-">>)
                \/ includes(content, <<"*">>) THEN 16 ELSE 0)
            + (IF Has("achievements") \/ Has("accomplishments") THEN 10 ELSE 0)
            + (IF digitRuns(content) > 5 THEN 8 ELSE 0)
            + (IF hasDate(content) THEN 6 ELSE 0)
    IN  Min(sections + keywordScore + length + format, 200)

\* generateSuggestions(content, score), score in half points
generateSuggestions(content, score) ==
    LET lowerContent == toLowerCase(content)
        Has(word) == includes(lowerContent, <<word>>)
        words == wordCount(content)
    IN  (IF score < 120
         THEN << "Add more relevant keywords from job descriptions",
                 "Include a professional summary section",
                 "Use bullet points to improve readability",
                 "Add quantifiable achievements with specific numbers" >>
         ELSE << >>)
        \o (IF ~Has("achievements") /\ ~Has("accomplishments")
            THEN << "Add quantifiable achievements and metrics" >> ELSE << >>)
        \o (IF ~Has("projects") /\ ~Has("portfolio")
            THEN << "Include relevant projects section" >> ELSE << >>)
        \o (IF score < 150
            THEN << "Use action verbs to start bullet points",
                    "Tailor skills section to match job requirements",
                    "Include relevant certifications and training",
                    "Add contact information at the top" >>
            ELSE << >>)
        \o (IF words < 300
            THEN << "CV is too short - add more detail about your experience" >>
            ELSE IF words > 1200
            THEN << "CV is too long - consider condensing to 1-2 pages" >>
            ELSE << >>)
        \o (IF ~includes(content, <<"(bullet)">>) /\ ~includes(content, <<"-">>)
            THEN << "Use bullet points for better readability" >> ELSE << >>)
        \o (IF digitRuns(content) < 3
            THEN << "Include more specific numbers and metrics" >> ELSE << >>)

\* Math.round(n / d) for n >= 0 and d > 0
MathRound(n, d) == (2 * n + d) \div (2 * d)

\* a variant that matches a job keyword only when a CV keyword contains it
KeywordMatchesOneWay(cvKeywords, keyword) ==
    \E i \in 1..Len(cvKeywords) :
        includes(toLowerCase(cvKeywords[i]), toLowerCase(keyword))

\* cvKeywords.some(cvKeyword => ...includes(...) || ...includes(...))
KeywordMatches(cvKeywords, keyword) ==
    \E i \in 1..Len(cvKeywords) :
        \/ includes(toLowerCase(cvKeywords[i]), toLowerCase(keyword))
        \/ includes(toLowerCase(keyword), toLowerCase(cvKeywords[i]))

\* static calculateMatchScore(cvContent, jobKeywords, jobRequirements)
calculateMatchScore(cvContent, jobKeywords, jobRequirements) ==
    LET cvKeywords == extractKeywords(cvContent)
        lowerCvContent == toLowerCase(cvContent)
        keywordHits == { i \in 1..Len(jobKeywords) : KeywordMatches(cvKeywords, jobKeywords[i]) }
        requirementHits ==
            { i \in 1..Len(jobRequirements) :
                includes(lowerCvContent, toLowerCase(jobRequirements[i])) }
        matchScore == 3 * Cardinality(keywordHits) + 2 * Cardinality(requirementHits)
        totalPossibleScore == 3 * Len(jobKeywords) + 2 * Len(jobRequirements)
    IN  IF totalPossibleScore > 0 THEN MathRound(matchScore * 100, totalPossibleScore) ELSE 0

\* basicAnalyzeCV(cvContent)
basicAnalyzeCV(cvContent) ==
    LET keywords == extractKeywords(cvContent)
        atsScore == calculateATSScore(cvContent, keywords)
    IN  [ fileName |-> "uploaded-cv.pdf", content |-> cvContent, keywords |-> keywords,
          atsScore |-> atsScore, suggestions |-> generateSuggestions(cvContent, atsScore) ]

\* String.prototype.trim
RECURSIVE trim(_)
trim(str) ==
    IF str = << >> THEN str
    ELSE IF Head(str) = " " THEN trim(Tail(str))
    ELSE IF str[Len(str)] = " " THEN trim(SubSeq(str, 1, Len(str) - 1))
    ELSE str

\* what the completion request of the collaborator comes to: an error, an
\* insufficient_quota error, or a message content (<< >> for none)
Failed == [ kind |-> "error", content |-> << >> ]
NoQuota == [ kind |-> "insufficient_quota", content |-> << >> ]
Content(c) == [ kind |-> "content", content |-> c ]

AIServiceError == AppError(<<"AI service error: ">>, 500, "INTERNAL_ERROR")

\* the try block of tailorCVForJob / generateCoverLetter: the trimmed
\* content, or an AppError (the one for an empty content is thrown inside
\* the try block and rethrown as an AI service error)
Completion(reply) ==
    IF reply.kind = "content" /\ reply.content # << >>
    THEN Returned(trim(reply.content))
    ELSE IF reply.kind = "insufficient_quota"
    THEN Thrown(AppError(<<"OpenAI API quota exceeded. Please check your billing.">>,
                         503, "INTERNAL_ERROR"))
    ELSE Thrown(AIServiceError)

\* AIService.tailorCVForJob / generateCoverLetter after checkLimit with
\* outcome r
Generate(r, enabled, reply) ==
    IF ~r.ok THEN Thrown(r.error)
    ELSE IF ~ensureOpenAI(enabled).ok THEN Thrown(ensureOpenAI(enabled).error)
    ELSE Completion(reply)

\* basicTailorCV(cvContent, jobKeywords)
basicTailorCV(cvContent, jobKeywords) ==
    LET cvKeywords == extractKeywords(cvContent)
        Missing(keyword) ==
            ~\E i \in 1..Len(cvKeywords) : toLowerCase(cvKeywords[i]) = toLowerCase(keyword)
        missingKeywords == SelectSeq(jobKeywords, Missing)
    IN  IF missingKeywords # << >>
        THEN cvContent \o <<"\n\nRELEVANT TECHNICAL SKILLS:\n(bullet) ">>
                       \o join(slice(missingKeywords, 8), <<"\n(bullet) ">>)
        ELSE cvContent

\* analyzeCVForATS(cvContent): the parsed reply, or an AppError.  A reply
\* with content holds the parsed JSON object
analyzeCVForATS(enabled, reply) ==
    IF ~ensureOpenAI(enabled).ok THEN Thrown(ensureOpenAI(enabled).error)
    ELSE IF reply.kind = "content" /\ reply.content # << >> THEN Returned(reply.content[1])
    ELSE Thrown(AIServiceError)

(***************************************************************************)
(* The calls of the application (App.tsx, CVUpload) into these services.   *)
(***************************************************************************)
CVTexts ==
    { << "experience", " ", "A", "W", "S", " ", "-", " ", "1", "2" >>,
      << "s", "q", "l" >> }
JobKeywordLists == { << <<"a", "w", "s">>, <<"c">> >> }
\* replies of the collaborator to analyzeCVForATS; a score is in half points
\* like the scores of calculateATSScore (170 is 85)
AnalysisReplies ==
    { Failed,
      Content(<< [ score |-> 170, keywords |-> << <<"a", "w", "s">> >>,
                   suggestions |-> << "Add a summary" >> ] >>) }
TextReplies == { Failed, NoQuota, Content(<< >>), Content(<< " ", "c", "v", " " >>) }
CVSteps == { config.rateLimits.cvTailoring.duration * 1000,
             config.cache.cvAnalysisTTL * 1000 + 1 }

Record(op) ==
    /\ ops < MaxOps
    /\ ops' = ops + 1
    /\ prevOp' = lastOp
    /\ lastOp' = op

\* ATSOptimizerService.analyzeCV(cvContent)
AnalyzeCV(cvContent, reply) ==
    LET key == CVAnalysisKey(createHash(cvContent))
        g   == cacheGet(cacheStore, cacheStats, clock, key)
        ai  == analyzeCVForATS(aiEnabled, reply)
        cvData == [ fileName |-> "uploaded-cv.pdf", content |-> cvContent,
                    keywords |-> ai.value.keywords, atsScore |-> ai.value.score,
                    suggestions |-> ai.value.suggestions ]
        s   == cacheSet(g.store, g.stats, clock, key, cvData,
                        Given(config.cache.cvAnalysisTTL))
        op  == [ NoOp EXCEPT !.op = "analyzeCV", !.text = cvContent, !.at = clock ]
    IN  IF g.result # Undefined
        THEN /\ Apply(g)
             /\ lastSet' = lastSet
             /\ Record([ op EXCEPT !.hit = TRUE, !.outcome = Returned(g.result[1]) ])
        ELSE IF ai.kind = "value"
        THEN /\ Apply(s)
             /\ lastSet' = [ k \in DOMAIN lastSet \cup {key} |->
                               IF k = key
                               THEN [ value |-> cvData, at |-> clock,
                                      ttl |-> config.cache.cvAnalysisTTL ]
                               ELSE lastSet[k] ]
             /\ Record([ op EXCEPT !.aiRun = TRUE, !.outcome = Returned(cvData) ])
        ELSE /\ Apply(g)
             /\ lastSet' = lastSet
             /\ Record([ op EXCEPT !.aiRun = aiEnabled, !.basicRun = TRUE,
                                   !.outcome = Returned(basicAnalyzeCV(cvContent)) ])

CallAnalyzeCV(cvContent, reply) ==
    /\ AnalyzeCV(cvContent, reply)
    /\ UNCHANGED <<clock, ticks, limVars, lastSweep, scrapeVars, restVars>>

\* AIService.tailorCVForJob(cvContent, job, userProfile) and
\* AIService.generateCoverLetter(job, userProfile)
GenerateEffect(name, operation, text, reply) ==
    LET r == checkLimit(buckets, clock, operation, "default")
    IN  /\ CheckLimitEffect(operation, "default")
        /\ Record([ NoOp EXCEPT !.op = name, !.text = text, !.at = clock, !.limited = ~r.ok,
                      !.aiRun = r.ok /\ aiEnabled,
                      !.outcome = Generate(r, aiEnabled, reply) ])

CallTailorCVForJob(cvContent, reply) ==
    /\ GenerateEffect("AIService.tailorCVForJob", "cvTailoring", cvContent, reply)
    /\ UNCHANGED <<clock, ticks, cacheVars, scrapeVars, restVars>>

CallGenerateCoverLetter(reply) ==
    /\ GenerateEffect("AIService.generateCoverLetter", "coverLetterGeneration", << >>, reply)
    /\ UNCHANGED <<clock, ticks, cacheVars, scrapeVars, restVars>>

\* ATSOptimizerService.tailorCVForJob(cvContent, jobKeywords, job, userProfile):
\* with a job and a profile, what aiService.tailorCVForJob returns; when it
\* throws, or without them, basicTailorCV
CallATSTailorCVForJob(cvContent, jobKeywords, withJob, reply) ==
    LET r  == checkLimit(buckets, clock, "cvTailoring", "default")
        ai == Generate(r, aiEnabled, reply)
        op == [ NoOp EXCEPT !.op = "ATSOptimizerService.tailorCVForJob", !.text = cvContent,
                            !.at = clock ]
    IN  /\ IF withJob
           THEN /\ CheckLimitEffect("cvTailoring", "default")
                /\ Record(IF ai.kind = "value"
                          THEN [ op EXCEPT !.aiRun = TRUE, !.outcome = ai ]
                          ELSE [ op EXCEPT !.limited = ~r.ok, !.aiRun = r.ok /\ aiEnabled,
                                   !.basicRun = TRUE,
                                   !.outcome = Returned(basicTailorCV(cvContent, jobKeywords)) ])
           ELSE /\ UNCHANGED limVars
                /\ Record([ op EXCEPT !.basicRun = TRUE,
                              !.outcome = Returned(basicTailorCV(cvContent, jobKeywords)) ])
        /\ UNCHANGED <<clock, ticks, cacheVars, scrapeVars, restVars>>

CVTick ==
    /\ \E d \in CVSteps : Advance(d, CVMaxTicks)
    /\ UNCHANGED <<limVars, cacheVars, scrapeVars, cvVars, restVars>>

\* the windows of cvTailoring and coverLetterGeneration have one point left
InitCV ==
    /\ ClockInit
    /\ CacheInit
    /\ ScrapeIdle
    /\ CVIdle
    /\ RestIdle
    /\ aiEnabled \in BOOLEAN
    /\ lastCheck = NoCall
    /\ buckets = [ k \in { <<"cvTailoring", "default">>, <<"coverLetterGeneration", "default">> } |->
                     [ consumed |-> config.rateLimits[k[1]].points - 1,
                       expiresAt |-> config.rateLimits[k[1]].duration * 1000 ] ]
    /\ win = [ k \in DOMAIN buckets |->
                 [ start |-> 0, calls |-> config.rateLimits[k[1]].points - 1 ] ]

NextCV ==
    \/ \E cvContent \in CVTexts : \E reply \in AnalysisReplies : CallAnalyzeCV(cvContent, reply)
    \/ \E cvContent \in CVTexts : \E reply \in TextReplies : CallTailorCVForJob(cvContent, reply)
    \/ \E reply \in TextReplies : CallGenerateCoverLetter(reply)
    \/ \E cvContent \in CVTexts : \E jobKeywords \in JobKeywordLists : \E withJob \in BOOLEAN :
         \E reply \in TextReplies : CallATSTailorCVForJob(cvContent, jobKeywords, withJob, reply)
    \/ CacheSweep
    \/ CVTick

SpecCV == InitCV /\ [][NextCV]_vars


ScrapeInit == ScrapeIdle /\ CVIdle /\ RestIdle /\ aiEnabled = FALSE

InitLimiter == ClockInit /\ LimInit /\ CacheInit /\ ScrapeInit

InitCache == ClockInit /\ LimInit /\ CacheInit /\ ScrapeInit

NextCache ==
    \/ \E k \in CacheKeys, v \in CacheValues, t \in CacheTTLs : CacheSet(k, v, t)
    \/ \E k \in CacheKeys : CacheGet(k)
    \/ \E k \in CacheKeys : CacheHas(k)
    \/ \E k \in CacheKeys : CacheDel(k)
    \/ CacheFlush
    \/ CacheGetStats
    \/ CacheSweep
    \/ CacheTick

SpecCache == InitCache /\ [][NextCache]_vars

NextLimiter ==
    \/ \E c \in LimiterCalls : CallCheckLimit(c[1], c[2])
    \/ LimiterTick

SpecLimiter == InitLimiter /\ [][NextLimiter]_vars

(***************************************************************************)
(* Claims                                                                  *)
(***************************************************************************)

\* C5: for one operation and identifier, the calls of checkLimit inside one
\* window of `duration` seconds pass up to the `points`-th, and every later
\* one (the (points+1)-th first) fails with a RateLimitError (429) whose
\* message carries a retry-after of at least one second.
C5_PointsPassThenRateLimitError ==
    lastCheck.operation \in Operations =>
        LET points == config.rateLimits[lastCheck.operation].points
        IN  /\ lastCheck.nth <= points => lastCheck.ok
            /\ lastCheck.nth > points =>
                 /\ ~lastCheck.ok
                 /\ lastCheck.error.name = "RateLimitError"
                 /\ lastCheck.error.statusCode = 429
                 /\ lastCheck.error.message[2] >= 1

\* the 11th jobSearch call of a window, made after time has passed in it
C5_Witness ==
    /\ lastCheck.operation = "jobSearch"
    /\ lastCheck.nth = config.rateLimits.jobSearch.points + 1
    /\ ~lastCheck.ok
    /\ clock > win[<<"jobSearch", "default">>].start
    /\ <<"cvTailoring", "default">> \in DOMAIN buckets

GetResult(k) == cacheGet(cacheStore, cacheStats, clock, k).result
HasResult(k) == cacheHas(cacheStore, cacheStats, clock, k).result

TaskNames == {"seek", "indeed"}
Fresh(f) == f.pc = "done" /\ f.outcome.kind = "value" /\ f.trace[Len(f.trace)] = "cacheSet"
IsScrapingError(e) == e # << >> /\ e.code = "SCRAPING_ERROR"

\* C1: when scrapeSeek and scrapeIndeed both fail in a scrapeJobs call that
\* missed the cache, the call fails with a ScrapingError: it does not go on
\* to return (and cache) a list.
C1_AllSourcesFailRaises ==
    \A d \in Depths :
        (\A t \in TaskNames : frames[d].tasks[t].pc = "rejected")
            => /\ frames[d].pc \in {"fetching", "done"}
               /\ frames[d].pc = "done" => /\ frames[d].outcome.kind = "error"
                                           /\ IsScrapingError(frames[d].outcome.error)

\* C2: when one source task succeeds and the other fails, scrapeJobs does
\* not fail, and every posting of the source that succeeded has a posting
\* with its lower-cased title and company in the result.
C2_PartialFailureReturns ==
    \A d \in Depths :
        LET f == frames[d]
        IN  (/\ f.pc = "done"
             /\ \E t \in TaskNames : f.tasks[t].pc = "fulfilled"
             /\ \E t \in TaskNames : f.tasks[t].pc = "rejected")
            => /\ f.outcome.kind = "value"
               /\ \A t \in TaskNames : \A i \in 1..Len(f.tasks[t].jobs) :
                    \E k \in 1..Len(f.outcome.value) :
                        /\ toLowerCase(f.outcome.value[k].title)
                             = toLowerCase(f.tasks[t].jobs[i].title)
                        /\ toLowerCase(f.outcome.value[k].company)
                             = toLowerCase(f.tasks[t].jobs[i].company)

SamePosting(a, b) ==
    /\ toLowerCase(a.title) = toLowerCase(b.title)
    /\ toLowerCase(a.company) = toLowerCase(b.company)

\* C3: a list that scrapeJobs returns, freshly aggregated or from the
\* cache, has no two postings with equal lower-cased title and equal
\* lower-cased company.
C3_NoDuplicatePostings ==
    \A d \in Depths :
        (frames[d].pc = "done" /\ frames[d].outcome.kind = "value")
            => \A i, j \in 1..Len(frames[d].outcome.value) :
                   i # j => ~SamePosting(frames[d].outcome.value[i], frames[d].outcome.value[j])

\* a fresh result for which removeDuplicates dropped a posting of the page
C3_Witness ==
    \E d \in Depths :
        /\ Fresh(frames[d])
        /\ Len(frames[d].tasks["indeed"].value) = 4
        /\ Len(frames[d].outcome.value) = 2

\* C6: in scrapeJobs the cache lookup comes before the rate-limit check.
C6_CacheProbedFirst ==
    \A d \in Depths : \A i \in 1..Len(frames[d].trace) :
        frames[d].trace[i] = "checkLimit" => \E j \in 1..(i - 1) : frames[d].trace[j] = "cacheGet"

\* C9: with the collaborator disabled, every posting of a freshly
\* aggregated result has the keywords that the deterministic extractor
\* finds in its title and description.
C9_KeywordFallback ==
    \A d \in Depths :
        (Fresh(frames[d]) /\ ~aiEnabled)
            => \A i \in 1..Len(frames[d].outcome.value) :
                   LET job == frames[d].outcome.value[i]
                   IN  job.keywords = extractKeywords(job.title \o <<" ">> \o job.description)

\* the timeouts of the request of a task so far
TimedOut(task) ==
    IF task.pc \in {"retryWait", "rejected"} THEN task.attempts
    ELSE IF task.pc = "get" THEN task.attempts - 1 ELSE 0

\* C10 as stated: a search-page request that has timed out 3 times has
\* raised the ScrapingError of its source.
C10_ThreeTimeoutsRaise ==
    \A d \in Depths : \A t \in TaskNames :
        TimedOut(frames[d].tasks[t]) >= 3 => frames[d].tasks[t].pc = "rejected"

\* C10, amended: a search-page request raises the ScrapingError of its
\* source, whose message names the source, exactly when it has timed out
\* retryAttempts + 1 = 4 times (the first attempt and 3 retries); each retry
\* comes retryDelay after a timeout, and the count is the request's own,
\* whatever the requests of the other tasks do.
C10_FourTimeoutsRaise ==
    \A d \in Depths : \A t \in TaskNames :
        LET task == frames[d].tasks[t]
        IN  /\ task.pc = "rejected" <=> TimedOut(task) = config.scraping.retryAttempts + 1
            /\ task.pc = "rejected" =>
                 /\ task.reason = ScrapingError(<<"Failed to scrape ", SiteName(t)>>, t)
                 /\ task.waited = config.scraping.retryAttempts * config.scraping.retryDelay
            /\ task.pc \in {"get", "retryWait"} =>
                 /\ task.attempts <= config.scraping.retryAttempts + 1
                 /\ task.waited = (task.attempts - 1) * config.scraping.retryDelay

\* a task was rejected while the other task of the call was retrying
C10_Witness ==
    \E d \in Depths :
        /\ frames[d].tasks["seek"].pc = "rejected"
        /\ frames[d].tasks["indeed"].pc = "retryWait"
        /\ frames[d].tasks["indeed"].attempts = 2

(***************************************************************************)
(* CV analysis, tailoring and cover letters                                *)
(***************************************************************************)
IsRateLimitError(e) == e # << >> /\ e.code = "RATE_LIMIT_ERROR"

\* C4: an operation whose checkLimit call failed does none of its work and
\* ends with the rate-limit failure and nothing else.
C4_RateLimitAborts ==
    lastOp.limited => /\ lastOp.outcome.kind = "error"
                      /\ IsRateLimitError(lastOp.outcome.error)
                      /\ ~lastOp.aiRun
                      /\ ~lastOp.basicRun

\* C8: the second of two consecutive analyzeCV calls with the same text,
\* within the CV-analysis TTL, is served from the cache: neither the
\* collaborator nor the deterministic scorer runs again.
C8_SecondAnalysisHits ==
    (/\ lastOp.op = "analyzeCV"
     /\ prevOp.op = "analyzeCV"
     /\ lastOp.text = prevOp.text
     /\ lastOp.at - prevOp.at <= config.cache.cvAnalysisTTL * 1000)
        => /\ lastOp.hit
           /\ ~lastOp.aiRun
           /\ ~lastOp.basicRun
           /\ lastOp.outcome = prevOp.outcome

\* C11: the detail step of scrapeSeek gives back exactly the listings it
\* was given, in the same order: when the Seek task is fulfilled, its value
\* is a list with the ids of the parsed listings at the same positions.
C11_DetailStepKeepsListings ==
    \A d \in Depths :
        LET task == frames[d].tasks["seek"]
        IN  task.pc = "fulfilled"
                => /\ task.iterable
                   /\ Len(task.value) = Len(task.jobs)
                   /\ \A i \in 1..Len(task.jobs) : task.value[i].id = task.jobs[i].id

\* C12: the atsScore of every result that analyzeCV returns is an integer
\* between 0 and 100: in half points, an even number between 0 and 200.
C12_AtsScoreIntegerInRange ==
    (lastOp.op = "analyzeCV" /\ lastOp.outcome.kind = "value")
        => /\ lastOp.outcome.value.atsScore % 2 = 0
           /\ lastOp.outcome.value.atsScore >= 0
           /\ lastOp.outcome.value.atsScore <= 200

(***************************************************************************)
(* The scoring functions of services/atsOptimizer.ts applied to documents  *)
(* of a bounded family.  A document is the words of its description        *)
(* joined by single spaces: the section headings, a bullet, dates,         *)
(* numerals, vocabulary keywords, and filler words up to its word count.   *)
(***************************************************************************)
Repeat(word, n) == [ i \in 1..n |-> word ]

Headings == << <<"experience">>, <<"education">>, <<"skills">>, <<"summary">> >>
HeadingChoices ==
    { {}, { <<"experience">>, <<"education">>, <<"skills">> },
      { <<"experience">>, <<"education">>, <<"skills">>, <<"summary">> } }
WordCounts == {99, 100, 199, 200, 399, 400, 500, 1000, 1001, 1500, 1501}
DateWords ==
    << <<"M", "a", "r", "c", "h">>, <<"2", "0", "2", "2">>,
       <<"J", "u", "n", "e">>, <<"2", "0", "2", "1">> >>
KeywordPool ==
    << <<"r", "e", "a", "c", "t">>, <<"p", "y", "t", "h", "o", "n">>, <<"s", "q", "l">>,
       <<"a", "w", "s">>, <<"d", "o", "c", "k", "e", "r">>, <<"g", "i", "t">> >>

Descriptions ==
    [ headings : HeadingChoices, words : WordCounts, bullets : BOOLEAN,
      achievements : BOOLEAN, dated : BOOLEAN,
      numerals : (MaxNumerals - 1)..MaxNumerals,
      keywords : (MaxKeywords - 1)..MaxKeywords ]

\* the document of the example: 500 words, Experience, Skills, Education,
\* a bullet, two Month-YYYY dates, 6 numeric tokens, 4 vocabulary keywords
ExampleDocument ==
    [ headings |-> { <<"experience">>, <<"education">>, <<"skills">> }, words |-> 500,
      bullets |-> TRUE, achievements |-> FALSE, dated |-> TRUE, numerals |-> 4,
      keywords |-> 4 ]

\* the words that the description names, then filler words up to f.words
Document(f) ==
    LET Chosen(h) == h \in f.headings
        marked == SelectSeq(Headings, Chosen)
                  \o (IF f.bullets THEN << <<"-">> >> ELSE << >>)
                  \o (IF f.achievements THEN << <<"achievements">> >> ELSE << >>)
                  \o (IF f.dated THEN DateWords ELSE << >>)
                  \o Repeat(<<"7">>, f.numerals)
                  \o SubSeq(KeywordPool, 1, f.keywords)
        filler == [ i \in 1..(2 * (f.words - Len(marked))) |->
                      IF i % 2 = 1 THEN " " ELSE "x" ]
    IN  IF marked = << >> THEN Tail(filler) ELSE join(marked, <<" ">>) \o filler

\* basicAnalyzeCV's scoring of a document: extractKeywords, then
\* calculateATSScore
ScoreDocument(f) ==
    /\ scored = NoScore
    /\ LET content == Document(f)
           keywords == extractKeywords(content)
       IN  scored' = [ fn |-> "calculateATSScore", document |-> f,
                       keywords |-> keywords,
                       score |-> calculateATSScore(content, keywords) ]
    /\ UNCHANGED <<clock, ticks, limVars, cacheVars, scrapeVars, cvVars, shareVars, appVars>>

\* the arguments of calculateMatchScore: CV texts, and lists of job
\* keywords and of requirements
SeqsUpTo(S, n) == UNION { [ 1..k -> S ] : k \in 0..n }
MatchCVs ==
    { << "x" >>,
      << "s", "q", "l" >>,
      << "k", "n", "o", "w", "s", " ", "A", "W", "S", " ", "s", "q", "l" >> }
JobKeywordPool ==
    { << >>, << "s" >>, << "S", "Q", "L", " ", "d", "b" >>, << "a", "w", "s" >>,
      << "j", "a", "v", "a" >> }
RequirementPool ==
    { << "K", "N", "O", "W", "S", " ", "a", "w", "s" >>, << "s", "q", "l" >>,
      << "p", "h", "d" >> }

MatchScore(cvContent, jobKeywords, jobRequirements) ==
    /\ scored = NoScore
    /\ scored' = [ fn |-> "calculateMatchScore", cvContent |-> cvContent,
                    jobKeywords |-> jobKeywords, jobRequirements |-> jobRequirements,
                    score |-> calculateMatchScore(cvContent, jobKeywords, jobRequirements) ]
    /\ UNCHANGED <<clock, ticks, limVars, cacheVars, scrapeVars, cvVars, shareVars, appVars>>

\* the keywords of the four essential sections, two per section
Sections ==
    << <<"experience", "employment">>, <<"education", "qualification">>,
       <<"skills", "competencies">>, <<"summary", "profile">> >>
EssentialWords == UNION { { Sections[i][1], Sections[i][2] } : i \in 1..Len(Sections) }
SectionOf(word) == CHOOSE i \in 1..Len(Sections) : word \in { Sections[i][1], Sections[i][2] }

\* documents on and around the boundaries of the length bands
BoundaryDocuments ==
    { f \in Descriptions :
        /\ ~f.bullets /\ ~f.achievements /\ ~f.dated
        /\ f.numerals = MaxNumerals /\ f.keywords = MaxKeywords }

\* basicAnalyzeCV's scoring of a document, and of the document with one
\* more word at its end
ScoreWithWord(f, word) ==
    /\ scored = NoScore
    /\ LET content == Document(f)
           longer == content \o <<" ", word>>
       IN  scored' = [ fn |-> "addWord", document |-> f, word |-> word,
                       absent |-> ~includes(toLowerCase(content), <<word>>),
                       credited |-> \E k \in 1..2 :
                           includes(toLowerCase(content), <<Sections[SectionOf(word)][k]>>),
                       before |-> calculateATSScore(content, extractKeywords(content)),
                       after |-> calculateATSScore(longer, extractKeywords(longer)) ]
    /\ UNCHANGED <<clock, ticks, limVars, cacheVars, scrapeVars, cvVars, shareVars, appVars>>

InitScore == ClockInit /\ LimInit /\ CacheInit /\ ScrapeInit

NextScore ==
    \/ \E f \in Descriptions : ScoreDocument(f)
    \/ \E cvContent \in MatchCVs : \E jobKeywords \in SeqsUpTo(JobKeywordPool, MaxJobKeywords) :
         \E jobRequirements \in SeqsUpTo(RequirementPool, MaxRequirements) :
           MatchScore(cvContent, jobKeywords, jobRequirements)
    \/ \E f \in BoundaryDocuments : \E word \in EssentialWords : ScoreWithWord(f, word)

SpecScore == InitScore /\ [][NextScore]_vars

\* the additive formula, in half points, from the description of a document
AdditiveScore(f) ==
    LET Heading(h, points) == IF <<h>> \in f.headings THEN points ELSE 0
        runs == f.numerals + (IF f.dated THEN 2 ELSE 0)
    IN  Min(Heading("experience", 30) + Heading("education", 20) + Heading("skills", 20)
              + Heading("summary", 10)
            + Min(3 * f.keywords, 50)
            + (IF f.words >= 400 /\ f.words <= 1000 THEN 30
               ELSE IF f.words >= 200 /\ f.words <= 1500 THEN 20
               ELSE IF f.words >= 100 THEN 10 ELSE 0)
            + (IF f.bullets THEN 16 ELSE 0)
            + (IF f.achievements THEN 10 ELSE 0)
            + (IF runs > 5 THEN 8 ELSE 0)
            + (IF f.dated THEN 6 ELSE 0),
            200)

\* C13: the deterministic ATS score of a document is the additive formula
\* (sections 15/10/10/5, min(1.5 x keywords, 25), length band 15/10/5/0,
\* bullets 8, achievements 5, more than 5 numeric tokens 4, a Month-YYYY
\* date 3), and the example document scores exactly 71 (142 half points).
C13_AdditiveFormula ==
    scored.fn = "calculateATSScore"
        => /\ scored.score = AdditiveScore(scored.document)
           /\ scored.document = ExampleDocument => scored.score = 142

C13_Witness ==
    /\ scored.fn = "calculateATSScore"
    /\ scored.document = ExampleDocument
    /\ Len(scored.keywords) = 4
    /\ scored.score = 142

FirstSeen(input) ==
    LET New(i) == \A j \in 1..(i - 1) : ~SamePosting(input[j], input[i])
        kept == SelectSeq([ i \in 1..Len(input) |-> i ], New)
    IN  [ k \in 1..Len(kept) |-> input[kept[k]].id ]

\* C16: deduplication is first-seen-wins: a freshly aggregated result holds,
\* in the order of the concatenated task results (Seek before Indeed),
\* exactly the postings whose lower-cased (title, company) pair no earlier
\* posting has.
C16_FirstSeenWins ==
    \A d \in Depths :
        Fresh(frames[d])
            => [ k \in 1..Len(frames[d].outcome.value) |-> frames[d].outcome.value[k].id ]
                   = FirstSeen(Collect(frames[d].tasks, 1))

(***************************************************************************)
(* The application: the useJobs hook (hooks/useJobs.ts), the handlers of   *)
(* App.tsx and the buttons of components/JobCard.tsx.  scrapeJobs is seen  *)
(* from its caller: it returns the list that its cache holds for the       *)
(* search, or scrapes a fresh list and stores it, or throws.               *)
(***************************************************************************)
exceptApp == <<clock, ticks, limVars, cacheVars, scrapeVars, cvVars, scored, shareVars>>

Put(f, k, v) == [ x \in DOMAIN f \cup {k} |-> IF x = k THEN v ELSE f[x] ]

\* the jobs of a fresh scrapeJobs result: the postings parsed from the
\* Indeed page at time `now`, without duplicates
Scraped(page, now) == removeDuplicates(ParsePage(page, "indeed", now))

\* prevJobs.map(job => job.id === jobId ? {...job, applicationStatus: status} : job)
WithStatus(list, jobId, status) ==
    [ i \in 1..Len(list) |->
        IF list[i].id = jobId THEN [ list[i] EXCEPT !.applicationStatus = status ]
        ELSE list[i] ]

\* updateJobStatus(jobId, status): onSuccess of updateJobMutation maps the
\* jobs state and the data of the current query, when it has data
UpdateJobStatus(jobId, status) ==
    /\ uiJobs' = WithStatus(uiJobs, jobId, status)
    /\ queryData' = IF searchParams # << >> /\ searchParams[1] \in DOMAIN queryData
                    THEN [ queryData EXCEPT ![searchParams[1]] = WithStatus(@, jobId, status) ]
                    ELSE queryData

\* loading: the current query has no data and is fetching (JobSearch
\* disables its submit button)
Loading ==
    /\ searchParams # << >>
    /\ searchParams[1] \notin DOMAIN queryData
    /\ searchParams[1] \in fetching

\* JobSearchSchema.parse({ keywords, location }): the messages of the issues
\* of an input, none for a valid one
JobSearchIssues(input) ==
    (IF Len(input.keywords) < 1 THEN << "At least one keyword is required" >> ELSE << >>)
    \o (IF \E i \in 1..Len(input.keywords) : Len(input.keywords[i]) < 1
        THEN << "String must contain at least 1 character(s)" >> ELSE << >>)
    \o (IF Len(input.location) < 1 THEN << "Location is required" >> ELSE << >>)

\* what parse throws: a ZodError, an Error that is no AppError
ZodError(issues) == [ name |-> "ZodError", message |-> issues ]

\* error instanceof AppError, error instanceof Error
IsAppError(error) == "statusCode" \in DOMAIN error
IsError(error) == "message" \in DOMAIN error

\* handleError(error)
handleError(error) ==
    IF IsAppError(error) THEN error
    ELSE IF IsError(error) THEN AppError(error.message, 500, "UNKNOWN_ERROR")
    ELSE AppError("An unknown error occurred", 500, "UNKNOWN_ERROR")

\* searchJobs(keywords, location).  An input that parse rejects: the error
\* that handleError makes of the ZodError is thrown.  A valid input other
\* than the current one: the query of the new key shows its data when it
\* has some, and fetches when it has none (the refetch of stale data is
\* RefreshJobs)
SearchJobs(p) ==
    /\ ~Loading
    /\ IF JobSearchIssues(p) # << >>
       THEN /\ searchThrew' = << handleError(ZodError(JobSearchIssues(p))) >>
            /\ UNCHANGED <<uiJobs, searchParams, fetching>>
       ELSE /\ searchParams # <<p>>
            /\ searchThrew' = << >>
            /\ searchParams' = <<p>>
            /\ IF p \in DOMAIN queryData
               THEN /\ uiJobs' = queryData[p]
                    /\ fetching' = fetching
               ELSE /\ uiJobs' = uiJobs
                    /\ fetching' = fetching \cup {p}
    /\ UNCHANGED <<queryData, processingJobs, cvUploaded, awaiting, served, scrapes, exceptApp>>

\* refreshJobs(): refetch() of the current query
RefreshJobs ==
    /\ searchParams # << >>
    /\ searchParams[1] \notin fetching
    /\ fetching' = fetching \cup {searchParams[1]}
    /\ UNCHANGED <<uiJobs, searchParams, queryData, processingJobs, cvUploaded, awaiting,
                   served, scrapes, searchThrew, exceptApp>>

\* queryFn returns: scrapeJobs gave the list of its cache or a fresh list;
\* the list becomes the data of the query and, for the current search, the
\* jobs state (the effect on searchResults)
QueryFnReturns(p, page) ==
    /\ p \in fetching
    /\ p \in DOMAIN served \/ scrapes < MaxScrapes
    /\ LET hit == p \in DOMAIN served
           list == IF hit THEN served[p] ELSE Scraped(page, scrapes + 1)
       IN  /\ served' = IF hit THEN served ELSE Put(served, p, list)
           /\ scrapes' = IF hit THEN scrapes ELSE scrapes + 1
           /\ queryData' = Put(queryData, p, list)
           /\ uiJobs' = IF searchParams = <<p>> THEN list ELSE uiJobs
    /\ fetching' = fetching \ {p}
    /\ UNCHANGED <<searchParams, processingJobs, cvUploaded, awaiting, searchThrew, exceptApp>>

\* queryFn throws (a RateLimitError or a ScrapingError of scrapeJobs): the
\* query keeps its data
QueryFnThrows(p) ==
    /\ p \in fetching
    /\ fetching' = fetching \ {p}
    /\ UNCHANGED <<uiJobs, searchParams, queryData, processingJobs, cvUploaded, awaiting,
                   served, scrapes, searchThrew, exceptApp>>

\* the jobSearchTTL of the scraper's cache entry of a search has passed
ServedExpires(p) ==
    /\ p \in DOMAIN served
    /\ served' = Without(served, {p})
    /\ UNCHANGED <<uiJobs, searchParams, queryData, fetching, processingJobs, cvUploaded,
                   awaiting, scrapes, searchThrew, exceptApp>>

\* CVAnalyzer's onCVAnalyzed: setCVData
UploadCV ==
    /\ ~cvUploaded
    /\ cvUploaded' = TRUE
    /\ UNCHANGED <<uiJobs, searchParams, queryData, fetching, processingJobs, awaiting,
                   served, scrapes, searchThrew, exceptApp>>

\* the buttons of a job card are enabled: the posting is on display, not
\* applied to and not being processed
ButtonsEnabled(jobId) ==
    /\ \E i \in 1..Len(uiJobs) : uiJobs[i].id = jobId /\ uiJobs[i].applicationStatus # "applied"
    /\ jobId \notin processingJobs

Call(handler, jobId) == [ handler |-> handler, jobId |-> jobId ]

\* a variant that marks the posting before the collaborator has answered
HandleTailorCVOptimistic(jobId) ==
    /\ ButtonsEnabled(jobId)
    /\ Cardinality(awaiting) < MaxAwaiting
    /\ cvUploaded
    /\ UpdateJobStatus(jobId, "tailored")
    /\ processingJobs' = processingJobs \cup {jobId}
    /\ awaiting' = awaiting \cup {Call("handleTailorCV", jobId)}
    /\ UNCHANGED <<searchParams, fetching, cvUploaded, served, scrapes, searchThrew, exceptApp>>

\* handleTailorCV(jobId) up to its await (it returns at once without cvData)
HandleTailorCV(jobId) ==
    /\ ButtonsEnabled(jobId)
    /\ Cardinality(awaiting) < MaxAwaiting
    /\ cvUploaded
    /\ processingJobs' = processingJobs \cup {jobId}
    /\ awaiting' = awaiting \cup {Call("handleTailorCV", jobId)}
    /\ UNCHANGED <<uiJobs, searchParams, queryData, fetching, cvUploaded, served, scrapes,
                   searchThrew, exceptApp>>

\* aiService.tailorCVForJob resolved: updateJobStatus(jobId, 'tailored')
TailorResolves(jobId) ==
    /\ Call("handleTailorCV", jobId) \in awaiting
    /\ UpdateJobStatus(jobId, "tailored")
    /\ processingJobs' = processingJobs \ {jobId}
    /\ awaiting' = awaiting \ {Call("handleTailorCV", jobId)}
    /\ UNCHANGED <<searchParams, fetching, cvUploaded, served, scrapes, searchThrew, exceptApp>>

\* aiService.tailorCVForJob rejected: the catch block reports the error
TailorRejects(jobId) ==
    /\ Call("handleTailorCV", jobId) \in awaiting
    /\ processingJobs' = processingJobs \ {jobId}
    /\ awaiting' = awaiting \ {Call("handleTailorCV", jobId)}
    /\ UNCHANGED <<uiJobs, searchParams, queryData, fetching, cvUploaded, served, scrapes,
                   searchThrew, exceptApp>>

\* handleGenerateCoverLetter(jobId) up to its await
HandleGenerateCoverLetter(jobId) ==
    /\ ButtonsEnabled(jobId)
    /\ Cardinality(awaiting) < MaxAwaiting
    /\ processingJobs' = processingJobs \cup {jobId}
    /\ awaiting' = awaiting \cup {Call("handleGenerateCoverLetter", jobId)}
    /\ UNCHANGED <<uiJobs, searchParams, queryData, fetching, cvUploaded, served, scrapes,
                   searchThrew, exceptApp>>

\* aiService.generateCoverLetter resolved or rejected
CoverLetterSettles(jobId) ==
    /\ Call("handleGenerateCoverLetter", jobId) \in awaiting
    /\ processingJobs' = processingJobs \ {jobId}
    /\ awaiting' = awaiting \ {Call("handleGenerateCoverLetter", jobId)}
    /\ UNCHANGED <<uiJobs, searchParams, queryData, fetching, cvUploaded, served, scrapes,
                   searchThrew, exceptApp>>

\* handleApply(jobId)
HandleApply(jobId) ==
    /\ ButtonsEnabled(jobId)
    /\ UpdateJobStatus(jobId, "applied")
    /\ UNCHANGED <<searchParams, fetching, processingJobs, cvUploaded, awaiting, served,
                   scrapes, searchThrew, exceptApp>>

\* inputs that JobSearchSchema rejects: no keyword, an empty keyword, an
\* empty location
MalformedSearches ==
    { [ keywords |-> << >>, location |-> <<"X">> ],
      [ keywords |-> << <<"a">>, << >> >>, location |-> <<"X">> ],
      [ keywords |-> << <<"a">> >>, location |-> << >> ] }

InitApp == ClockInit /\ LimInit /\ CacheInit /\ ScrapeInit

\* the ids that postings can have
JobIds ==
    UNION { { Scraped(pn[1], pn[2])[i].id : i \in 1..Len(Scraped(pn[1], pn[2])) } :
              pn \in Pages \X (1..MaxScrapes) }

NextApp ==
    \/ \E p \in Searches : SearchJobs(p)
    \/ RefreshJobs
    \/ \E p \in Searches : \E page \in Pages : QueryFnReturns(p, page)
    \/ \E p \in Searches : QueryFnThrows(p)
    \/ \E p \in Searches : ServedExpires(p)
    \/ UploadCV
    \/ \E jobId \in JobIds : HandleTailorCV(jobId)
    \/ \E jobId \in JobIds : TailorResolves(jobId)
    \/ \E jobId \in JobIds : TailorRejects(jobId)
    \/ \E jobId \in JobIds : HandleGenerateCoverLetter(jobId)
    \/ \E jobId \in JobIds : CoverLetterSettles(jobId)
    \/ \E jobId \in JobIds : HandleApply(jobId)

SpecApp == InitApp /\ [][NextApp]_vars

\* the promise of aiService.tailorCVForJob settles: the request to the
\* collaborator answers, fails or times out, and the rate limiter and
\* ensureOpenAI throw at once
TailorSettles(jobId) == TailorResolves(jobId) \/ TailorRejects(jobId)
SpecAppFair == SpecApp /\ \A jobId \in JobIds : WF_vars(TailorSettles(jobId))

\* the useJobs hook on its own, called with inputs of every kind
NextSearch ==
    \/ \E p \in Searches \cup MalformedSearches : SearchJobs(p)
    \/ RefreshJobs
    \/ \E p \in Searches : \E page \in Pages : QueryFnReturns(p, page)
    \/ \E p \in Searches : QueryFnThrows(p)
    \/ \E p \in Searches : ServedExpires(p)

SpecSearch == InitApp /\ [][NextSearch]_vars

AllowedTransitions ==
    { <<"not_applied", "tailored">>, <<"not_applied", "generating">>,
      <<"generating", "tailored">>, <<"generating", "not_applied">> }
    \cup { <<status, "applied">> : status \in {"not_applied", "tailored", "generating", "applied"} }

\* C15: whenever a posting on display is still on display after a step and
\* its applicationStatus has changed, the change is one of not_applied ->
\* tailored, not_applied -> generating, generating -> tailored, generating
\* -> not_applied, or any status -> applied.
C15_StatusTransitions ==
    [][ \A i \in 1..Len(uiJobs) : \A j \in 1..Len(uiJobs') :
          (uiJobs[i].id = uiJobs'[j].id
           /\ uiJobs[i].applicationStatus # uiJobs'[j].applicationStatus)
              => <<uiJobs[i].applicationStatus, uiJobs'[j].applicationStatus>>
                     \in AllowedTransitions ]_vars

\* C17: a checkLimit call on one (operation, identifier) pair, passed or
\* rejected, leaves the remaining points of every other pair as they were.
C17_BucketsIndependent ==
    [][ clock' = clock
          => \A operation \in Operations : \A identifier \in {"default", "user2"} :
               <<operation, identifier>> # <<lastCheck'.operation, lastCheck'.identifier>>
                 => getRemainingPoints(buckets', clock', operation, identifier)
                      = getRemainingPoints(buckets, clock, operation, identifier) ]_vars

\* cvTailoring is exhausted for the default identifier, and a later
\* jobSearch call of the same identifier has passed
C17_Witness ==
    /\ lastCheck.operation = "jobSearch"
    /\ lastCheck.identifier = "default"
    /\ lastCheck.ok
    /\ BucketOf(buckets, <<"cvTailoring", "default">>).consumed
         > config.rateLimits.cvTailoring.points
    /\ getRemainingPoints(buckets, clock, "cvTailoring", "default") = 0
    /\ getRemainingPoints(buckets, clock, "jobSearch", "default")
         = config.rateLimits.jobSearch.points - 1

\* the time until the window of the pair of the latest call ends, as the
\* call saw it (the clock does not move during a call)
MsBeforeNext ==
    WindowOf(win, <<lastCheck'.operation, lastCheck'.identifier>>).start
        + config.rateLimits[lastCheck'.operation].duration * 1000 - clock

RejectedCall ==
    /\ clock' = clock
    /\ lastCheck'.operation \in Operations
    /\ ~lastCheck'.ok

\* C18 as stated: when checkLimit fails, the seconds of its message are the
\* time until the window ends (window start + duration - now), floored to
\* whole seconds, and 1 at least.
C18_RetryAfterFloored ==
    [][ RejectedCall
          => lastCheck'.error.message[2]
               = (IF MsBeforeNext \div 1000 < 1 THEN 1 ELSE MsBeforeNext \div 1000) ]_vars

\* C18, amended: the seconds are the time until the window ends rounded to
\* the nearest whole second (a half rounds up), and 1 when that is 0.
C18_RetryAfterRounded ==
    [][ RejectedCall
          => LET nearest == (MsBeforeNext + 500) \div 1000
             IN  lastCheck'.error.message[2] = (IF nearest < 1 THEN 1 ELSE nearest) ]_vars

\* a call rejected 59.5 s before the end of its window: the message says 60
C18_Witness ==
    /\ ~lastCheck.ok
    /\ lastCheck.operation = "jobSearch"
    /\ clock = 500
    /\ win[<<"jobSearch", "default">>].start = 0
    /\ lastCheck.nth = config.rateLimits.jobSearch.points + 1
    /\ lastCheck.error.message[2] = 60

\* C19: the hit and miss counters of the cache never decrease; del and
\* flush leave both unchanged, every get adds one to exactly one of them,
\* and has (like set, getStats and the periodic sweep) changes neither.
C19_CountersMonotonic ==
    [][ /\ cacheStats'.hits >= cacheStats.hits
        /\ cacheStats'.misses >= cacheStats.misses
        /\ ((\E k \in CacheKeys : CacheDel(k)) \/ CacheFlush)
             => /\ cacheStats'.hits = cacheStats.hits
                /\ cacheStats'.misses = cacheStats.misses
        /\ (\E k \in CacheKeys : CacheGet(k))
             => cacheStats'.hits + cacheStats'.misses
                  = cacheStats.hits + cacheStats.misses + 1
        /\ ((\E k \in CacheKeys : CacheHas(k)) \/ CacheSweep)
             => /\ cacheStats'.hits = cacheStats.hits
                /\ cacheStats'.misses = cacheStats.misses ]_vars

\* a hit and a miss have been counted, and every entry has since been
\* deleted or flushed
C19_Witness ==
    /\ cacheStats.hits = 1
    /\ cacheStats.misses = 1
    /\ cacheStats.keys = 0
    /\ cacheStore = << >>
    /\ lastSet = << >>

\* C20: no two postings of a list that a scrapeJobs call returns have the
\* same id.
C20_IdsUnique ==
    \A d \in Depths :
        (frames[d].pc = "done" /\ frames[d].outcome.kind = "value")
            => \A i, j \in 1..Len(frames[d].outcome.value) :
                   i # j => frames[d].outcome.value[i].id # frames[d].outcome.value[j].id

\* a call has returned a list of two postings
C20_Witness ==
    \E d \in Depths :
        /\ frames[d].pc = "done"
        /\ frames[d].outcome.kind = "value"
        /\ Len(frames[d].outcome.value) = 2

DetailRequests(d) ==
    { <<e, t>> \in ((d + 1)..Len(frames)) \X TaskNames : frames[e].tasks[t].pc = "get" }

KeyOfSearch(s) ==
    <<"job_search:">> \o join(s.keywords, <<",">>) \o <<":">> \o s.location
        \o <<":">> \o s.location

\* the list that the latest cacheJobSearch of a search stored, while it is
\* younger than jobSearchTTL: << >> for none, <<list>> for the list
StoredFor(s) ==
    IF /\ KeyOfSearch(s) \in DOMAIN lastSet
       /\ clock <= lastSet[KeyOfSearch(s)].at + config.cache.jobSearchTTL * 1000
    THEN << lastSet[KeyOfSearch(s)].value >>
    ELSE << >>

\* C23: a scrapeJobs call that missed the cache returns exactly the list it
\* stores under the key of its search, with a TTL of 300 s; and a call that
\* has passed the rate limit while a list stored for its keywords and
\* location is younger than that returns this list, and starts no source
\* task.
C23_CachedResultReturned ==
    [][ \A d \in 1..Len(frames) :
          d <= Len(frames') =>
            LET f == frames[d]
                g == frames'[d]
            IN  /\ (f.pc = "enhancing" /\ g.pc = "done")
                     => /\ g.outcome.kind = "value"
                        /\ KeyOfSearch(f.search) \in DOMAIN cacheStore'
                        /\ cacheStore'[KeyOfSearch(f.search)]
                             = [ value |-> g.outcome.value,
                                 expiry |-> clock + config.cache.jobSearchTTL * 1000 ]
                        /\ StoredFor(f.search)' = << g.outcome.value >>
                /\ (f.pc = "checked" /\ g.pc # "checked" /\ StoredFor(f.search) # << >>)
                     => /\ g.pc = "done"
                        /\ g.outcome = Returned(StoredFor(f.search)[1])
                        /\ g.trace = <<"checkLimit", "cacheGet">>
                        /\ \A t \in TaskNames : g.tasks[t] = NoTask ]_vars

\* the second call of a search, made 30 s after the first, has returned
\* the two postings that the first call stored
C23_Witness ==
    /\ calls = 2
    /\ Len(frames) = 1
    /\ frames[1].pc = "done"
    /\ frames[1].trace = <<"checkLimit", "cacheGet">>
    /\ StoredFor(frames[1].search) # << >>
    /\ clock = lastSet[KeyOfSearch(frames[1].search)].at + 30000
    /\ frames[1].outcome = Returned(StoredFor(frames[1].search)[1])
    /\ Len(frames[1].outcome.value) = 2

(***************************************************************************)
(* The cache and the objects it is given.  A value passed to set is an     *)
(* object (the array of a job search, the record of a CV analysis); the    *)
(* model gives every object an address and keeps its content in the heap.  *)
(* BrowserCache.set puts the value it is given into the item, and get      *)
(* returns item.value: the cache is constructed with useClones: false and  *)
(* copies nothing.                                                         *)
(***************************************************************************)
Requests == {"q1", "q2"}
ShareKeys == {"k1"}

\* what a request passes to set
NewContent == << "job" >>

\* a request creates an object and passes it to cacheService.set
ShareSet(q, key) ==
    /\ Len(heap) < MaxObjects
    /\ LET address == Len(heap) + 1
       IN  /\ heap' = Append(heap, NewContent)
           /\ Apply(cacheSet(cacheStore, cacheStats, clock, key, address, Omitted))
           /\ lastSet' = Put(lastSet, key, [ value |-> address, content |-> NewContent,
                                              at |-> clock, ttl |-> stdTTL ])
           /\ held' = Put(held, q, address)
    /\ UNCHANGED <<clock, ticks, lastSweep, limVars, scrapeVars, cvVars, scored, appVars>>

\* a request calls cacheService.get and keeps what it returns
ShareGet(q, key) ==
    /\ cacheStats.hits + cacheStats.misses < MaxGets
    /\ LET g == cacheGet(cacheStore, cacheStats, clock, key)
       IN  /\ Apply(g)
           /\ held' = IF g.result = Undefined THEN held ELSE Put(held, q, g.result[1])
    /\ UNCHANGED <<clock, ticks, lastSweep, lastSet, heap, limVars, scrapeVars, cvVars, scored,
                   appVars>>

\* a request changes the object it holds (array.push)
ShareMutate(q) ==
    /\ q \in DOMAIN held
    /\ Len(heap[held[q]]) < MaxLength
    /\ heap' = [ heap EXCEPT ![held[q]] = Append(@, "pushed") ]
    /\ UNCHANGED <<clock, ticks, cacheVars, held, limVars, scrapeVars, cvVars, scored, appVars>>

InitShare == ClockInit /\ LimInit /\ CacheInit /\ ScrapeInit

NextShare ==
    \/ \E q \in Requests : \E key \in ShareKeys : ShareSet(q, key)
    \/ \E q \in Requests : \E key \in ShareKeys : ShareGet(q, key)
    \/ \E q \in Requests : ShareMutate(q)

SpecShare == InitShare /\ [][NextShare]_vars

\* C24: the cache holds copies.  What get returns for a key has the content
\* that the value had when it was passed to set, whatever a request has done
\* since to the object it passed or to an object it received; and no two
\* requests hold the same object.
C24_CacheHoldsCopies ==
    /\ \A key \in DOMAIN lastSet :
         LET g == cacheGet(cacheStore, cacheStats, clock, key)
         IN  g.result # Undefined => heap[g.result[1]] = lastSet[key].content
    /\ \A q1, q2 \in DOMAIN held : q1 # q2 => held[q1] # held[q2]

\* C25 as stated: adding an essential-section keyword that the document
\* does not contain never lowers the score.
C25_KeywordNeverLowers ==
    (scored.fn = "addWord" /\ scored.absent) => scored.after >= scored.before

\* C25, amended: adding a keyword of an essential section of which the
\* document contains neither keyword never lowers the score, on the
\* boundaries of the length bands too (the section counts at least the 5
\* points that the longer text can lose).
C25_NewSectionNeverLowers ==
    (scored.fn = "addWord" /\ ~scored.credited) => scored.after >= scored.before

\* "summary" added to a document of 1000 words without it: 5 points for the
\* section, 5 points less for the length, the score as before
C25_Witness ==
    /\ scored.fn = "addWord"
    /\ scored.document.words = 1000
    /\ scored.word = "summary"
    /\ ~scored.credited
    /\ scored.after = scored.before
    /\ scored.before > 0

\* C26: a searchJobs call with a malformed input (no keyword, an empty
\* keyword or an empty location) throws a ValidationError with status 400
\* and code VALIDATION_ERROR, and starts no search: the search parameters
\* and the running queries stay as they were.
C26_MalformedSearchRejected ==
    [][ (searchThrew' # << >> /\ searchThrew' # searchThrew)
          => /\ searchThrew'[1].name = "ValidationError"
             /\ searchThrew'[1].statusCode = 400
             /\ searchThrew'[1].code = "VALIDATION_ERROR"
             /\ searchParams' = searchParams
             /\ fetching' = fetching ]_vars

\* C27: a scrapeJobs call never calls scrapeJobs again: there is at most one
\* activation of scrapeJobs per call of the caller, and the Seek task of an
\* activation goes from its search request straight to its result.
C27_NoReentry ==
    /\ Len(frames) <= 1
    /\ \A d \in Depths :
         /\ frames[d].tasks["seek"].pc # "nested"
         /\ \A i \in 1..Len(frames[d].trace) : frames[d].trace[i] # "scrapeJobs"

\* C28: a posting on display whose applicationStatus is 'applied' is still
\* 'applied' after every step that keeps it on display, a refresh or a
\* refetch of the search included.
C28_AppliedStays ==
    [][ \A i \in 1..Len(uiJobs) : \A j \in 1..Len(uiJobs') :
          (uiJobs[i].id = uiJobs'[j].id /\ uiJobs[i].applicationStatus = "applied")
              => uiJobs'[j].applicationStatus = "applied" ]_vars

\* C29: handleTailorCV changes no status before its tailoring call has
\* settled; when the call fails it changes none at all; when the call
\* succeeds it sets the status of its posting, and of no other, to
\* 'tailored'; the step in which the call settles, either way, takes the
\* id out of the processing set, and every awaited call is followed by a
\* state in which the id is not in the processing set.
C29_TailoredOnlyOnSuccess ==
    /\ [][ \A jobId \in JobIds :
             LET call == Call("handleTailorCV", jobId)
             IN  /\ (call \notin awaiting /\ call \in awaiting')
                      => /\ uiJobs' = uiJobs
                         /\ queryData' = queryData
                         /\ jobId \in processingJobs'
                 /\ (call \in awaiting /\ call \notin awaiting')
                      => /\ jobId \notin processingJobs'
                         /\ \/ uiJobs' = uiJobs /\ queryData' = queryData
                            \/ TailorResolves(jobId)
                                  /\ uiJobs' = WithStatus(uiJobs, jobId, "tailored")
                 /\ TailorRejects(jobId) => uiJobs' = uiJobs /\ queryData' = queryData ]_vars
    /\ \A jobId \in JobIds :
         (Call("handleTailorCV", jobId) \in awaiting) ~> (jobId \notin processingJobs)

\* a posting is 'tailored' and is no longer being processed, the other
\* posting of the list is untouched
C29_Witness ==
    /\ Len(uiJobs) = 2
    /\ uiJobs[1].applicationStatus = "tailored"
    /\ uiJobs[2].applicationStatus = "not_applied"
    /\ uiJobs[1].id \notin processingJobs
    /\ awaiting = {}

=============================================================================
